---- MODULE Spec2Model ----
(***************************************************************************)
(* Model of the execution-graph builder and the wave executor of          *)
(* deno-dist (src/src/graph.ts).                                          *)
(*                                                                         *)
(* Strings that take part in operation ids are represented by the list of *)
(* their ':'-free segments, i.e. by what String.prototype.split(":")      *)
(* returns for them: "node" is <<"node">>, "jsr:x" is <<"jsr", "x">>.     *)
(* Joining with ':' is then concatenation of segment lists and two        *)
(* strings are equal exactly when their segment lists are equal.          *)
(***************************************************************************)
EXTENDS Integers, Sequences, FiniteSets, TLC

\* ---------------------------------------------------------------------------
\* Generic helpers for insertion-ordered JavaScript collections
\* ---------------------------------------------------------------------------

Range(s) == {s[i] : i \in DOMAIN s}

\* Set.prototype.add on an insertion-ordered Set kept as a duplicate-free list
SetAdd(s, x) == IF x \in Range(s) THEN s ELSE Append(s, x)

RECURSIVE SetAddAll(_, _)
SetAddAll(s, xs) ==
  IF xs = <<>> THEN s ELSE SetAddAll(SetAdd(s, Head(xs)), Tail(xs))

RECURSIVE Flatten(_)
Flatten(ss) == IF ss = <<>> THEN <<>> ELSE Head(ss) \o Flatten(Tail(ss))

\* Map.prototype.set
MapSet(map, key, value) ==
  [k \in DOMAIN map \cup {key} |-> IF k = key THEN value ELSE map[k]]

\* ---------------------------------------------------------------------------
\* Phases
\* ---------------------------------------------------------------------------

BUILD_PHASE_IDS == <<"preprocess", "transform", "postprocess">>

PHASE_IDS == <<"preprocess", "transform", "postprocess", "setup", "release">>

isBuildPhase(value) ==
  value = "preprocess" \/ value = "transform" \/ value = "postprocess"

\* plugin.handlers is the set of phase methods the plugin object defines
getPluginPhases(plugin) ==
  SelectSeq(PHASE_IDS, LAMBDA ph : ph \in plugin.handlers)

\* ---------------------------------------------------------------------------
\* Operation ids
\* ---------------------------------------------------------------------------

\* variant of operationId: the phase field is a constant
operationId_FixedPhase(distribution, pluginId, phase) ==
  distribution \o pluginId \o <<"transform">>

operationId(distribution, pluginId, phase) ==
  distribution \o pluginId \o <<phase>>

\* const [distribution, pluginId, phase] = id.split(":")
parseOperationId(id) ==
  [distribution |-> id[1], pluginId |-> id[2], phase |-> id[3]]

\* a one-segment string, as produced by the destructuring above
Str(segment) == <<segment>>

\* ---------------------------------------------------------------------------
\* buildExecutionGraph: phases to include and node creation
\* ---------------------------------------------------------------------------

\* variant of phasesToInclude: setup and release are included only on request
phasesToInclude_OnRequest(options) ==
  IF options.hasPhases
    THEN options.phases
    ELSE (IF options.includeSetup = "true" THEN {"setup"} ELSE {})
           \cup Range(BUILD_PHASE_IDS)
           \cup (IF options.includeRelease = "true" THEN {"release"} ELSE {})

\* new Set(options.phases ?? [setup unless includeSetup === false,
\* ...BUILD_PHASE_IDS, release unless includeRelease === false])
phasesToInclude(options) ==
  IF options.hasPhases
    THEN options.phases
    ELSE (IF options.includeSetup # "false" THEN {"setup"} ELSE {})
           \cup Range(BUILD_PHASE_IDS)
           \cup (IF options.includeRelease # "false" THEN {"release"} ELSE {})

\* variant of NodesSet: the nodes are pushed onto an array instead of being
\* set in a Map keyed by id
NodesSet_Push(nodes, operation) == Append(nodes, operation)

\* Map.prototype.set on the insertion-ordered Map of nodes, kept as a list of
\* operations with pairwise distinct ids
NodesSet(nodes, operation) ==
  IF \E i \in DOMAIN nodes : nodes[i].id = operation.id
    THEN [i \in DOMAIN nodes |->
            IF nodes[i].id = operation.id THEN operation ELSE nodes[i]]
    ELSE Append(nodes, operation)

RECURSIVE createPhaseNodes(_, _, _, _)
createPhaseNodes(nodes, info, implementedPhases, toInclude) ==
  IF implementedPhases = <<>> THEN nodes
  ELSE LET phase == Head(implementedPhases)
           operation == [id           |-> operationId(info.distribution, info.plugin.id, phase),
                         plugin       |-> info.plugin,
                         phase        |-> phase,
                         distribution |-> info.distribution]
       IN createPhaseNodes(
            IF phase \in toInclude THEN NodesSet(nodes, operation) ELSE nodes,
            info, Tail(implementedPhases), toInclude)

RECURSIVE createNodes(_, _, _)
createNodes(nodes, plugins, toInclude) ==
  IF plugins = <<>> THEN nodes
  ELSE createNodes(
         createPhaseNodes(nodes, Head(plugins), getPluginPhases(Head(plugins).plugin), toInclude),
         Tail(plugins), toInclude)

NodeIds(nodes) == [i \in DOMAIN nodes |-> nodes[i].id]

\* ---------------------------------------------------------------------------
\* buildExecutionGraph: dependency edges (second pass)
\* ---------------------------------------------------------------------------

IndexOf(seq, x) ==
  IF \E i \in DOMAIN seq : seq[i] = x
    THEN (CHOOSE i \in DOMAIN seq : seq[i] = x /\ \A j \in 1..(i - 1) : seq[j] # x) - 1
    ELSE -1

\* variant of phaseOrderingDeps: the previous build phase of every
\* distribution
phaseOrderingDeps_AnyDistribution(nodes, id) ==
  LET me         == parseOperationId(id)
      phaseOrder == <<"preprocess", "transform", "postprocess">>
      phaseIndex == IndexOf(phaseOrder, me.phase)
  IN IF isBuildPhase(me.phase) /\ phaseIndex > 0
       THEN SelectSeq(NodeIds(nodes),
              LAMBDA otherId :
                parseOperationId(otherId).phase = phaseOrder[(phaseIndex - 1) + 1])
       ELSE <<>>

\* 1. phase ordering: every operation of the previous build phase of the
\*    same (parsed) distribution
phaseOrderingDeps(nodes, id) ==
  LET me         == parseOperationId(id)
      phaseOrder == <<"preprocess", "transform", "postprocess">>
      phaseIndex == IndexOf(phaseOrder, me.phase)
  IN IF isBuildPhase(me.phase) /\ phaseIndex > 0
       THEN SelectSeq(NodeIds(nodes),
              LAMBDA otherId :
                /\ parseOperationId(otherId).distribution = me.distribution
                /\ parseOperationId(otherId).phase = phaseOrder[(phaseIndex - 1) + 1])
       ELSE <<>>

\* 2. release depends on every build-phase operation of the distribution
releaseDeps(nodes, id) ==
  LET me == parseOperationId(id)
  IN IF me.phase = "release"
       THEN SelectSeq(NodeIds(nodes),
              LAMBDA otherId :
                /\ parseOperationId(otherId).distribution = me.distribution
                /\ isBuildPhase(parseOperationId(otherId).phase))
       ELSE <<>>

\* 3. plugin-declared dependencies, same distribution and phase
declaredDeps(nodes, operation) ==
  LET me     == parseOperationId(operation.id)
      depIds == [k \in DOMAIN operation.plugin.dependencies |->
                   operationId(Str(me.distribution), operation.plugin.dependencies[k], me.phase)]
  IN SelectSeq(depIds, LAMBDA depId : depId \in Range(NodeIds(nodes)))

\* !metadata.canParallelize, for a flag that is "true", "false" or "unset"
\* (undefined)
notParallelizable(plugin) == plugin.canParallelize # "true"

\* 4. config order among the non-parallelizable plugins of the phase
orderingDeps(nodes, plugins, operation) ==
  LET me == parseOperationId(operation.id)
      samePhasePlugins ==
        SelectSeq(SelectSeq(plugins, LAMBDA p : p.distribution = Str(me.distribution)),
                  LAMBDA p : me.phase \in Range(getPluginPhases(p.plugin)))
      myIndex == IndexOf([k \in DOMAIN samePhasePlugins |-> samePhasePlugins[k].plugin.id],
                         Str(me.pluginId))
  IN IF notParallelizable(operation.plugin) /\ myIndex > 0
       THEN LET prevPlugin == samePhasePlugins[(myIndex - 1) + 1]
                prevId     == operationId(Str(me.distribution), prevPlugin.plugin.id, me.phase)
            IN IF notParallelizable(prevPlugin.plugin) /\ prevId \in Range(NodeIds(nodes))
                 THEN <<prevId>>
                 ELSE <<>>
       ELSE <<>>

\* node.dependencies of one node after the second pass, in insertion order
nodeDependencies(nodes, plugins, operation) ==
  SetAddAll(<<>>,
    phaseOrderingDeps(nodes, operation.id) \o releaseDeps(nodes, operation.id)
      \o declaredDeps(nodes, operation) \o orderingDeps(nodes, plugins, operation))

\* nodes.get(id)!.operation
NodeOf(nodes, id) == nodes[CHOOSE i \in DOMAIN nodes : nodes[i].id = id]

\* the second pass: for (const [id, node] of nodes), from the k-th node on;
\* yields the dependencies of every node, keyed by operation id
RECURSIVE addDependencyEdgesFrom(_, _, _)
addDependencyEdgesFrom(nodes, plugins, k) ==
  IF k > Len(nodes) THEN <<>>
  ELSE (nodes[k].id :> nodeDependencies(nodes, plugins, nodes[k]))
         @@ addDependencyEdgesFrom(nodes, plugins, k + 1)

addDependencyEdges(nodes, plugins) == addDependencyEdgesFrom(nodes, plugins, 1)

\* node.dependents, the mirror image of node.dependencies
dependentsOf(dependencies, id) ==
  {other \in DOMAIN dependencies : id \in Range(dependencies[other])}

\* ---------------------------------------------------------------------------
\* detectCycles: depth-first search with a recursion stack
\* ---------------------------------------------------------------------------

RECURSIVE dfs(_, _, _)
RECURSIVE dfsLoop(_, _, _, _)

\* st = [visited, recursionStack, found]; found is the value dfs returns
dfs(dependencies, id, st) ==
  LET entered == [visited        |-> st.visited \cup {id},
                  recursionStack |-> st.recursionStack \cup {id},
                  found          |-> FALSE]
  IN IF id \notin DOMAIN dependencies
       THEN entered
       ELSE LET r == dfsLoop(dependencies, dependencies[id], 1, entered)
            IN IF r.found
                 THEN r
                 ELSE [r EXCEPT !.recursionStack = r.recursionStack \ {id}]

dfsLoop(dependencies, deps, k, st) ==
  IF k > Len(deps) THEN st
  ELSE LET depId == deps[k]
       IN IF depId \notin st.visited
            THEN LET r == dfs(dependencies, depId, st)
                 IN IF r.found THEN r ELSE dfsLoop(dependencies, deps, k + 1, r)
            ELSE IF depId \in st.recursionStack
                   THEN [st EXCEPT !.found = TRUE]
                   ELSE dfsLoop(dependencies, deps, k + 1, st)

RECURSIVE detectCyclesFrom(_, _, _, _)
detectCyclesFrom(dependencies, ids, k, st) ==
  IF k > Len(ids) THEN FALSE
  ELSE IF ids[k] \notin st.visited
         THEN LET r == dfs(dependencies, ids[k], st)
              IN IF r.found THEN TRUE ELSE detectCyclesFrom(dependencies, ids, k + 1, r)
         ELSE detectCyclesFrom(dependencies, ids, k + 1, st)

\* variant of detectCycles: the search is left out
detectCycles_Never(ids, dependencies) == FALSE

detectCycles(ids, dependencies) ==
  detectCyclesFrom(dependencies, ids, 1,
                   [visited |-> {}, recursionStack |-> {}, found |-> FALSE])

\* ---------------------------------------------------------------------------
\* computeWaves: modified Kahn's algorithm
\* ---------------------------------------------------------------------------

\* variant of decrementDependents: a dependent becomes ready as soon as one
\* of its dependencies is placed (its in-degree is reset instead of lowered)
RECURSIVE decrementDependents_Reset(_, _, _)
decrementDependents_Reset(dependencies, inDegree, waveIds) ==
  IF waveIds = <<>> THEN inDegree
  ELSE decrementDependents_Reset(dependencies,
         [id \in dependentsOf(dependencies, Head(waveIds)) |-> 0] @@ inDegree,
         Tail(waveIds))

\* for (const op of waveOperations) for (const dependentId of node.dependents)
\*   inDegree.set(dependentId, currentDegree - 1)
RECURSIVE decrementDependents(_, _, _)
decrementDependents(dependencies, inDegree, waveIds) ==
  IF waveIds = <<>> THEN inDegree
  ELSE LET dependents == dependentsOf(dependencies, Head(waveIds))
           lowered    == [id \in dependents |-> inDegree[id] - 1]
       IN decrementDependents(dependencies, lowered @@ inDegree, Tail(waveIds))

\* variant of readyIds: one operation is placed per round
readyIds_First(remaining, inDegree) ==
  LET ready == SelectSeq(remaining, LAMBDA id : inDegree[id] = 0)
  IN IF ready = <<>> THEN <<>> ELSE <<Head(ready)>>

\* for (const id of remaining) if (inDegree.get(id) === 0) waveOperations.push(...)
readyIds(remaining, inDegree) == SelectSeq(remaining, LAMBDA id : inDegree[id] = 0)

RECURSIVE computeWavesLoop(_, _, _, _, _)
computeWavesLoop(nodes, dependencies, remaining, inDegree, waves) ==
  IF remaining = <<>> THEN [error |-> "none", waves |-> waves]
  ELSE LET waveIds == readyIds(remaining, inDegree)
       IN IF waveIds = <<>>
            THEN [error |-> "No operations available but remaining set is not empty",
                  waves |-> waves]
            ELSE computeWavesLoop(nodes, dependencies,
                   SelectSeq(remaining, LAMBDA id : id \notin Range(waveIds)),
                   decrementDependents(dependencies, inDegree, waveIds),
                   Append(waves, [index      |-> Len(waves),
                                  operations |-> [k \in DOMAIN waveIds |-> NodeOf(nodes, waveIds[k])]]))

computeWaves(nodes, dependencies) ==
  computeWavesLoop(nodes, dependencies, NodeIds(nodes),
                   [id \in DOMAIN dependencies |-> Len(dependencies[id])] @@ <<>>, <<>>)

\* ---------------------------------------------------------------------------
\* buildExecutionGraph
\* ---------------------------------------------------------------------------

NoGraph == [waves |-> <<>>, totalOperations |-> 0, hasCycles |-> FALSE, edges |-> <<>>]

\* [error, graph]: error is "none" when a graph is returned, else the message
\* of the GraphError thrown
buildExecutionGraph(plugins, options) ==
  LET nodes        == createNodes(<<>>, plugins, phasesToInclude(options))
      dependencies == addDependencyEdges(nodes, plugins)
      hasCycles    == detectCycles(NodeIds(nodes), dependencies)
      computed     == computeWaves(nodes, dependencies)
  IN IF hasCycles
       THEN [error |-> "Cycle detected in plugin dependency graph", graph |-> NoGraph]
       ELSE IF computed.error # "none"
              THEN [error |-> computed.error, graph |-> NoGraph]
              ELSE [error |-> "none",
                    graph |-> [waves           |-> computed.waves,
                               totalOperations |-> Len(nodes),
                               hasCycles       |-> FALSE,
                               edges           |-> dependencies]]

\* ---------------------------------------------------------------------------
\* filterGraphByPhases
\* ---------------------------------------------------------------------------

\* graph.waves.map(...).filter((wave) => wave.operations.length > 0)
filteredWaves(g, phaseSet) ==
  SelectSeq([k \in DOMAIN g.waves |->
               [index      |-> k - 1,
                operations |-> SelectSeq(g.waves[k].operations,
                                         LAMBDA op : op.phase \in phaseSet)]],
            LAMBDA wave : wave.operations # <<>>)

\* variant of reindexWaves: the waves keep the index they had
reindexWaves_Keep(waves) == waves

\* filteredWaves.map((wave, newIndex) => ({ ...wave, index: newIndex }))
reindexWaves(waves) == [n \in DOMAIN waves |-> [waves[n] EXCEPT !.index = n - 1]]

\* reindexedWaves.reduce((sum, wave) => sum + wave.operations.length, 0)
RECURSIVE sumOperations(_)
sumOperations(waves) ==
  IF waves = <<>> THEN 0 ELSE Len(Head(waves).operations) + sumOperations(Tail(waves))

filterGraphByPhases(g, phaseSet) ==
  LET reindexedWaves == reindexWaves(filteredWaves(g, phaseSet))
      relevantOps ==
        UNION {{reindexedWaves[n].operations[i].id : i \in DOMAIN reindexedWaves[n].operations} :
                 n \in DOMAIN reindexedWaves}
  IN [waves           |-> reindexedWaves,
      totalOperations |-> sumOperations(reindexedWaves),
      hasCycles       |-> FALSE,
      edges           |-> [id \in DOMAIN g.edges \cap relevantOps |->
                             SelectSeq(g.edges[id], LAMBDA dep : dep \in relevantOps)]]

\* ---------------------------------------------------------------------------
\* mergeGraphs
\* ---------------------------------------------------------------------------

\* for (const graph of graphs) for (const wave of graph.waves)
\*   for (const op of wave.operations): the operation with
\* [...(graph.edges.get(op.id) ?? [])]
mergeItems(graphs) ==
  Flatten([n \in DOMAIN graphs |->
    Flatten([k \in DOMAIN graphs[n].waves |->
      [i \in DOMAIN graphs[n].waves[k].operations |->
         LET op == graphs[n].waves[k].operations[i]
         IN [operation |-> op,
             deps      |-> IF op.id \in DOMAIN graphs[n].edges
                             THEN graphs[n].edges[op.id] ELSE <<>>]]])])

\* variant of mergeCollect: the edge lists of an operation that occurs in
\* several graphs are joined
RECURSIVE mergeCollect_Joined(_, _)
mergeCollect_Joined(items, acc) ==
  IF items = <<>> THEN acc
  ELSE LET id  == Head(items).operation.id
           old == IF id \in DOMAIN acc.allEdges THEN acc.allEdges[id] ELSE <<>>
       IN mergeCollect_Joined(Tail(items),
            [nodes    |-> NodesSet(acc.nodes, Head(items).operation),
             allEdges |-> MapSet(acc.allEdges, id, SetAddAll(old, Head(items).deps))])

\* allEdges.set(op.id, deps); nodes.set(op.id, { operation: op, ... })
RECURSIVE mergeCollect(_, _)
mergeCollect(items, acc) ==
  IF items = <<>> THEN acc
  ELSE mergeCollect(Tail(items),
         [nodes    |-> NodesSet(acc.nodes, Head(items).operation),
          allEdges |-> MapSet(acc.allEdges, Head(items).operation.id, Head(items).deps)])

\* variant of mergeWaves: the waves of the inputs are appended, not recomputed
mergeWaves_Appended(graphs, nodes, dependencies) ==
  [error |-> "none",
   waves |-> LET all == Flatten([n \in DOMAIN graphs |-> graphs[n].waves])
             IN [k \in DOMAIN all |-> [all[k] EXCEPT !.index = k - 1]]]

\* const waves = computeWaves(nodes), over dependencies: new Set(deps)
mergeWaves(graphs, nodes, dependencies) == computeWaves(nodes, dependencies)

\* variant of mergeOne: the single graph is rebuilt without its edge map
mergeOne_Rebuilt(g) == [g EXCEPT !.edges = <<>>]

\* if (graphs.length === 1) return graphs[0]
mergeOne(g) == g

\* [error, graph]: error is "none" when a graph is returned, else the message
\* of the GraphError that computeWaves throws
mergeGraphs(graphs) ==
  IF Len(graphs) = 0 THEN [error |-> "none", graph |-> NoGraph]
  ELSE IF Len(graphs) = 1 THEN [error |-> "none", graph |-> mergeOne(graphs[1])]
  ELSE LET collected    == mergeCollect(mergeItems(graphs), [nodes |-> <<>>, allEdges |-> <<>>])
           dependencies == [id \in DOMAIN collected.allEdges |->
                              SetAddAll(<<>>, collected.allEdges[id])]
           computed     == mergeWaves(graphs, collected.nodes, dependencies)
       IN IF computed.error # "none"
            THEN [error |-> computed.error, graph |-> NoGraph]
            ELSE [error |-> "none",
                  graph |-> [waves           |-> computed.waves,
                             totalOperations |-> Len(collected.nodes),
                             hasCycles       |-> FALSE,
                             edges           |-> collected.allEdges]]

\* ---------------------------------------------------------------------------
\* executeGraph / executeOperation: values
\* ---------------------------------------------------------------------------

\* values that the context factory, a handler and the progress callback throw
ContextThrown  == [isError |-> FALSE, text |-> "no context"]
HandlerThrown  == [isError |-> TRUE,  text |-> "handler failed"]
CallbackThrown == [isError |-> TRUE,  text |-> "progress failed"]

\* error instanceof Error ? error.message : String(error)
ErrorText(thrown) == IF thrown.isError THEN thrown.text ELSE "String(" \o thrown.text \o ")"

Undefined == "undefined"

HandlerResult(outcome) ==
  IF outcome = "ok"
    THEN [success |-> TRUE, error |-> Undefined, warnings |-> FALSE]
    ELSE [success |-> FALSE, error |-> "reported failure", warnings |-> FALSE]

\* the result executeOperation returns for a plugin without a handler
NoHandlerResult == [success |-> TRUE, error |-> Undefined, warnings |-> TRUE]

\* const errorResult = { success: false, error: ... }
ErrorResult(thrown) == [success |-> FALSE, error |-> ErrorText(thrown), warnings |-> FALSE]

\* The synchronous part of executeOperation, run when the wave is mapped:
\* "noHandler"  - plugin[phase] is missing, nothing is called
\* "ctxThrew"   - the context factory threw, the handler is not called
\* "invoked"    - the context was created and the handler was called
executeOperation(operation, factoryThrows) ==
  IF operation.phase \notin operation.plugin.handlers THEN "noHandler"
  ELSE IF factoryThrows THEN "ctxThrew"
  ELSE "invoked"

\* what the awaited executeOperation promise yields
\* [threw, value]: a result, or a thrown value
OperationOutcome(how, handlerOutcome) ==
  CASE how = "noHandler" -> [threw |-> FALSE, result |-> NoHandlerResult, thrown |-> HandlerThrown]
    [] how = "ctxThrew"  -> [threw |-> TRUE,  result |-> NoHandlerResult, thrown |-> ContextThrown]
    [] handlerOutcome = "throw"
                         -> [threw |-> TRUE,  result |-> NoHandlerResult, thrown |-> HandlerThrown]
    [] OTHER             -> [threw |-> FALSE, result |-> HandlerResult(handlerOutcome),
                             thrown |-> HandlerThrown]

\* ---------------------------------------------------------------------------
\* State
\* ---------------------------------------------------------------------------

VARIABLES
  plugins,        \* argument of buildExecutionGraph: list of ResolvedPluginInfo
  options,        \* argument of buildExecutionGraph: GraphBuildOptions
  onProgress,     \* argument of executeGraph: "undefined", "callback" (any
                  \* function, it may throw) or "logger" (the callback that
                  \* runPipelineGraph passes, which only logs)
  entry,          \* the exported function the caller called, and the
                  \* ExtendedPipelineOptions it was given
  pc,             \* "start", "threw", "built", "executing", "resolved", "rejected"
  built,          \* what buildExecutionGraph returned or threw
  waveIndex,      \* number of waves mapped so far by the for loop
  promise,        \* operation id -> state of its wave promise
  inflight,       \* operation id -> how executeOperation started
  contextCalls,   \* operation id -> number of context factory calls
  handlerCalls,   \* operation id -> number of handler invocations
  settledAs,      \* operation id -> how its executeOperation promise settled
  results,        \* const results = new Map()
  failed,         \* const failed: string[]
  completed,      \* let completed
  progressLog,    \* the (completed, total, operation id) passed to onProgress
  returned,       \* the GraphExecutionResult, once executeGraph has returned
  pipelineResults,\* runPipelineGraph: const results = new Map<string, PipelineResult>()
  \* filterGraphByPhases and mergeGraphs, called on graphs the builder returned
  parts,          \* the graphs handed to mergeGraphs: what buildExecutionGraph
                  \* returned or threw for the plugins of each distribution on
                  \* its own, or graphs derived from the graph of the whole list
  merged,         \* what mergeGraphs returned or threw for the graphs in parts
  filtered,       \* what filterGraphByPhases returned, and its phases argument
  \* runPipeline (sequential mode), run over the resolved list in plugins
  runPc,          \* "idle", "phases", "runPhase", "awaiting", "returned"
  phaseCursor,    \* number of phases the for loop of runPipeline has entered
  pluginCursor,   \* position of the for loop of runPhase in the resolved list
  running,        \* handlers invoked and not yet settled, as <<phase, position>>
  invocations,    \* every handler invocation so far, in order
  outcomes,       \* how the settled invocations settled, in order
  state,          \* const state: PipelineState
  pipelineResult, \* the PipelineResult, once runPipeline has returned
  \* plugins/mod.ts: concurrent resolvePlugins calls over the module's caches
  distConfigs,    \* call -> the DistributionConfig it resolves (plugins, scripts)
  registry,       \* registry.plugins: metadata id -> plugin
  loadPromises,   \* loadPromises: id -> its load promise (position in loads)
  loads,          \* every doLoadPlugin call so far: [id, state]
  calls,          \* call -> its loadPlugin calls, one per unique id
  resolvePc,      \* call -> "idle", "loading", "returned", "rejected"
  resolved        \* call -> the ResolvedPlugin list it returned

loaderVars == <<distConfigs, registry, loadPromises, loads, calls, resolvePc, resolved>>

pipelineVars == <<runPc, phaseCursor, pluginCursor, running, invocations, outcomes, state,
                  pipelineResult>>

graphOpsVars == <<parts, merged, filtered>>

vars == <<plugins, options, onProgress, entry, pc, built, waveIndex, promise, inflight,
          contextCalls, handlerCalls, settledAs, results, failed, completed, progressLog,
          returned, pipelineResults, graphOpsVars, pipelineVars, loaderVars>>

inputVars == <<plugins, options, onProgress, entry>>

execVars == <<waveIndex, promise, inflight, contextCalls, handlerCalls, settledAs,
              results, failed, completed, progressLog, returned>>

\* what the actions of the graph engine leave alone
otherVars == <<pipelineResults, graphOpsVars, pipelineVars, loaderVars>>

\* what the actions of the sequential mode and of the plugin loader leave alone
graphVars == <<inputVars, pc, built, execVars, pipelineResults, graphOpsVars>>

graph == built.graph

WaveIds(k) == [i \in DOMAIN graph.waves[k].operations |-> graph.waves[k].operations[i].id]

AllOperations == Flatten([k \in DOMAIN graph.waves |-> graph.waves[k].operations])

AllIds == {AllOperations[i].id : i \in DOMAIN AllOperations}

OperationOf(id) == AllOperations[CHOOSE i \in DOMAIN AllOperations : AllOperations[i].id = id]

NoResult == [success |-> FALSE, results |-> <<>>, failed |-> <<>>]

NoPipelineResult == [success |-> FALSE, phases |-> <<>>]

\* ---------------------------------------------------------------------------
\* Inputs
\* ---------------------------------------------------------------------------

MaxPlugins     == 3   \* longest plugin list given to the builder alone
MaxExecPlugins == 2   \* longest plugin list of a graph that is also executed
MaxPipelinePlugins == 3   \* longest resolved list given to runPipeline
MaxResolveCalls == 2   \* number of resolvePlugins calls that may overlap
MaxEntryPlugins == 2   \* longest resolved list behind a specialised entry point
MaxMergePlugins == 3   \* longest plugin list of graphs that are filtered and merged

Plg(id, handlers, dependencies, canParallelize) ==
  [id |-> id, handlers |-> handlers, dependencies |-> dependencies,
   canParallelize |-> canParallelize]

Info(plugin, distribution) == [plugin |-> plugin, distribution |-> distribution]

IdA == <<"A">>
IdB == <<"B">>
IdC == <<"C">>
IdJsrC == <<"jsr", "C">>   \* the plugin id "jsr:C"

DistD == <<"d">>
DistE == <<"e">>

\* const distNames = Object.keys(config.distributions)
distNames == <<DistD, DistE>>

Classic     == Plg(IdA, {"preprocess", "transform", "postprocess"}, <<>>, "false")
NoTransform == Plg(IdC, {"preprocess", "postprocess", "release"}, <<>>, "false")
Lifecycle   == Plg(IdC, {"setup", "release"}, <<>>, "true")
Scoped      == Plg(IdJsrC, {"preprocess", "transform", "postprocess"}, <<IdA>>, "false")
ScopedUser  == Plg(IdA, {"transform"}, <<IdJsrC>>, "true")

\* the plugin of the wave-count test with canParallelize true and left unset
ClassicPar   == Plg(IdA, {"preprocess", "transform", "postprocess"}, <<>>, "true")
ClassicUnset == Plg(IdA, {"preprocess", "transform", "postprocess"}, <<>>, "unset")

\* transform-only plugins A and B, with or without a dependency on each other
TransformOnly ==
  {Plg(IdA, {"transform"}, <<>>, "true"), Plg(IdA, {"transform"}, <<>>, "false"),
   Plg(IdA, {"transform"}, <<IdB>>, "true"), Plg(IdB, {"transform"}, <<>>, "false"),
   Plg(IdB, {"transform"}, <<IdA>>, "true"), Plg(IdB, {"transform"}, <<IdA>>, "false")}

BuildEntries ==
  {Info(p, DistD) :
     p \in TransformOnly \cup {Classic, ClassicPar, NoTransform, Lifecycle, Scoped, ScopedUser}}
    \cup {Info(p, DistE) :
            p \in {ClassicUnset, NoTransform, Plg(IdB, {"transform"}, <<IdA>>, "true")}}

PreTransform == Plg(IdA, {"preprocess", "transform"}, <<>>, "false")
Releaser     == Plg(IdC, {"release"}, <<>>, "true")

ExecEntries ==
  {Info(PreTransform, DistD), Info(Releaser, DistD),
   Info(Plg(IdB, {"transform"}, <<IdA>>, "true"), DistD),
   Info(Plg(IdA, {"transform"}, <<IdB>>, "true"), DistD),
   Info(Plg(IdB, {"transform"}, <<>>, "true"), DistE)}

\* a plugin with the id "jsr:C" that builds and releases
ScopedReleaser == Plg(IdJsrC, {"transform", "release"}, <<>>, "true")

\* resolved plugins behind runPipelineGraph, runSetup, runBuild and runRelease
EntryEntries ==
  {Info(PreTransform, DistD), Info(Lifecycle, DistD), Info(ScopedReleaser, DistD),
   Info(Releaser, DistE)}

\* plugins of two distributions whose graphs are filtered and merged
GraphOpsEntries ==
  {Info(p, DistD) : p \in {Classic, Lifecycle, Scoped, Plg(IdB, {"transform"}, <<IdA>>, "false")}}
    \cup {Info(p, DistE) : p \in {ClassicUnset, NoTransform}}

\* values of the phases argument of filterGraphByPhases
FilterPhases ==
  {{"transform"}, {"preprocess", "postprocess"}, {"preprocess", "release"}, Range(PHASE_IDS)}

\* resolved plugins of one distribution for the sequential mode
PipelineEntries ==
  {Info(p, DistD) : p \in {Classic, PreTransform, NoTransform, Lifecycle, Scoped,
                           Plg(IdB, {"transform"}, <<>>, "true"),
                           Plg(IdB, {"transform", "postprocess"}, <<IdA>>, "unset")}}

Lists(entries, n) == UNION {[1..k -> entries] : k \in 0..n}

\* GraphBuildOptions: distributions is required, phases is optional
\* (hasPhases), includeSetup and includeRelease are "true", "false" or "unset"
Opt(distributions, hasPhases, phases, includeSetup, includeRelease) ==
  [distributions |-> distributions, hasPhases |-> hasPhases, phases |-> phases,
   includeSetup |-> includeSetup, includeRelease |-> includeRelease]

BuildOptions ==
  {Opt(<<DistD, DistE>>, FALSE, {}, "unset", "unset"),
   Opt(<<DistD, DistE>>, FALSE, {}, "false", "false"),
   Opt(<<DistD, DistE>>, TRUE, {"preprocess", "postprocess", "release"}, "unset", "unset"),
   Opt(<<DistD>>, FALSE, {}, "true", "false")}

ExecOptions ==
  {Opt(<<DistD, DistE>>, FALSE, {}, "unset", "unset"),
   Opt(<<DistD, DistE>>, FALSE, {}, "false", "false")}

\* the options with which the graphs that are filtered and merged are built
GraphOpsOptions == {o \in BuildOptions : o.includeSetup = "unset"}

\* ---------------------------------------------------------------------------
\* runPipelineGraph and the specialised entry points: the options
\* ---------------------------------------------------------------------------

\* ExtendedPipelineOptions, the fields that reach the graph builder: runSetup
\* and runRelease are "true", "false" or "unset", phases is optional
PipelineOpt(setup, release, hasPhases, phaseIds) ==
  [runSetup |-> setup, runRelease |-> release, hasPhases |-> hasPhases, phases |-> phaseIds]

\* { ...options, runSetup: true, runRelease: false, phases: ["setup"] }
runSetup(o) ==
  [o EXCEPT !.runSetup = "true", !.runRelease = "false",
            !.hasPhases = TRUE, !.phases = {"setup"}]

\* { ...options, runSetup: false, runRelease: true,
\*   phases: ["preprocess", "transform", "postprocess", "release"] }
runRelease(o) ==
  [o EXCEPT !.runSetup = "false", !.runRelease = "true",
            !.hasPhases = TRUE,
            !.phases = {"preprocess", "transform", "postprocess", "release"}]

\* { ...options, runSetup: false, runRelease: false,
\*   phases: ["preprocess", "transform", "postprocess"] }
runBuild(o) ==
  [o EXCEPT !.runSetup = "false", !.runRelease = "false",
            !.hasPhases = TRUE, !.phases = {"preprocess", "transform", "postprocess"}]

\* the options with which the entry point calls runPipelineGraph
entryOptions(e) ==
  CASE e.name = "runSetup"   -> runSetup(e.options)
    [] e.name = "runRelease" -> runRelease(e.options)
    [] e.name = "runBuild"   -> runBuild(e.options)
    [] OTHER                 -> e.options

\* options.runSetup ?? false
orFalse(flag) == IF flag = "unset" THEN "false" ELSE flag

\* const graphOptions: GraphBuildOptions = { distributions: distNames, ... }
graphOptions(o) ==
  Opt(distNames, o.hasPhases, o.phases, orFalse(o.runSetup), orFalse(o.runRelease))

\* allPlugins holds the resolved plugins distribution by distribution, in
\* the order of distNames
ResolvedInOrder(list) ==
  \A i, j \in DOMAIN list :
    i < j => IndexOf(distNames, list[i].distribution) <= IndexOf(distNames, list[j].distribution)

\* graphOptions: includeSetup and includeRelease are always booleans
IsGraphOptions(o) == o.includeSetup # "unset" /\ o.includeRelease # "unset"

\* a direct call of buildExecutionGraph and executeGraph, as the tests make
DirectCall == [name |-> "executeGraph", options |-> PipelineOpt("unset", "unset", FALSE, {})]

\* options with which the caller calls an entry point: none, or flags and a
\* phases value of its own
CallerOptions ==
  {PipelineOpt("unset", "unset", FALSE, {}),
   PipelineOpt("true", "false", TRUE, {"setup", "transform"})}

\* the caller behind the arguments that the graph engine is given
CallerOf(list, o, callback) ==
  IF callback = "logger" /\ IsGraphOptions(o) /\ ResolvedInOrder(list)
    THEN [name    |-> "runPipelineGraph",
          options |-> PipelineOpt(o.includeSetup, o.includeRelease, o.hasPhases, o.phases)]
    ELSE DirectCall

\* ---------------------------------------------------------------------------
\* Initial states
\* ---------------------------------------------------------------------------

InitRest ==
  /\ pc = "start"
  /\ built = [error |-> "none", graph |-> NoGraph]
  /\ waveIndex = 0
  /\ promise = <<>>
  /\ inflight = <<>>
  /\ contextCalls = <<>>
  /\ handlerCalls = <<>>
  /\ settledAs = <<>>
  /\ results = <<>>
  /\ failed = <<>>
  /\ completed = 0
  /\ progressLog = <<>>
  /\ returned = NoResult
  /\ pipelineResults = <<>>
  /\ parts = [done |-> FALSE, builds |-> <<>>]
  /\ merged = [done |-> FALSE, error |-> "none", graph |-> NoGraph]
  /\ filtered = [done |-> FALSE, phases |-> {}, graph |-> NoGraph]

\* runPipeline has not been called
InitPipelineRest ==
  /\ runPc = "idle"
  /\ phaseCursor = 0
  /\ pluginCursor = 0
  /\ running = {}
  /\ invocations = <<>>
  /\ outcomes = <<>>
  /\ state = [phaseResults |-> <<>>, aborted |-> FALSE]
  /\ pipelineResult = NoPipelineResult

\* no resolvePlugins call has been made, the caches are empty
InitLoaderRest ==
  /\ registry = <<>>
  /\ loadPromises = <<>>
  /\ loads = <<>>
  /\ calls = [r \in DOMAIN distConfigs |-> <<>>]
  /\ resolvePc = [r \in DOMAIN distConfigs |-> "idle"]
  /\ resolved = [r \in DOMAIN distConfigs |-> <<>>]

Init ==
  /\ plugins \in Lists(ExecEntries, MaxExecPlugins)
  /\ options \in ExecOptions
  /\ onProgress \in {"undefined", "callback", "logger"}
  /\ entry = CallerOf(plugins, options, onProgress)
  /\ InitRest
  /\ InitPipelineRest
  /\ distConfigs = <<>>
  /\ InitLoaderRest

InitBuild ==
  /\ plugins \in Lists(BuildEntries, MaxPlugins)
  /\ options \in BuildOptions
  /\ onProgress = "undefined"
  /\ entry = DirectCall
  /\ InitRest
  /\ InitPipelineRest
  /\ distConfigs = <<>>
  /\ InitLoaderRest

\* ---------------------------------------------------------------------------
\* Actions
\* ---------------------------------------------------------------------------

\* variant of BuildOutcome: the caller catches the GraphError and goes on with
\* an empty graph
BuildOutcome_Swallowed(error) == "built"

\* where the caller of buildExecutionGraph stands after the call: a thrown
\* GraphError is not caught, it rejects the caller's promise
BuildOutcome(error) == IF error = "none" THEN "built" ELSE "threw"

\* const graph = buildExecutionGraph(allPlugins, graphOptions)
Build ==
  /\ pc = "start"
  /\ built' = buildExecutionGraph(plugins, options)
  /\ pc' = BuildOutcome(built'.error)
  /\ LET ids == IF built'.error = "none"
                  THEN DOMAIN built'.graph.edges
                  ELSE Range(NodeIds(createNodes(<<>>, plugins, phasesToInclude(options))))
     IN /\ promise' = [id \in ids |-> "unmapped"]
        /\ inflight' = [id \in ids |-> "none"]
        /\ contextCalls' = [id \in ids |-> 0]
        /\ handlerCalls' = [id \in ids |-> 0]
        /\ settledAs' = [id \in ids |-> "pending"]
  /\ UNCHANGED <<inputVars, waveIndex, results, failed, completed, progressLog, returned>>
  /\ UNCHANGED otherVars

\* variant of WaveSettled: the loop does not await the wave promises
WaveSettled_NoAwait == TRUE

\* variant of WaveSettled: Promise.race in place of Promise.all
WaveSettled_Race ==
  \A k \in 1..waveIndex : \E id \in Range(WaveIds(k)) : promise[id] = "fulfilled"

\* every wave promise of the waves mapped so far is fulfilled, so the
\* await Promise.all(wavePromises) of the current iteration has returned
WaveSettled ==
  \A k \in 1..waveIndex : \A id \in Range(WaveIds(k)) : promise[id] = "fulfilled"

\* variant of waveCallbacks: the callback of the first operation only
waveCallbacks_First(k) == {WaveIds(k)[1]}

\* wave.operations.map(async (operation) => ...): the operations whose
\* callbacks are started by the iteration for wave k
waveCallbacks(k) == Range(WaveIds(k))

\* one iteration of the for loop up to its await: wave.operations.map(...)
\* runs executeOperation of every operation of the wave up to its first await
DispatchWave ==
  /\ pc \in {"built", "executing"}
  /\ waveIndex < Len(graph.waves)
  /\ WaveSettled
  /\ \E factoryThrows \in SUBSET waveCallbacks(waveIndex + 1) :
       LET wave == waveCallbacks(waveIndex + 1)
           how  == [id \in wave |-> executeOperation(OperationOf(id), id \in factoryThrows)]
       IN /\ inflight' = [id \in DOMAIN inflight |->
                            IF id \in wave THEN how[id] ELSE inflight[id]]
          /\ contextCalls' = [id \in DOMAIN contextCalls |->
                                IF id \in wave /\ how[id] # "noHandler"
                                  THEN contextCalls[id] + 1 ELSE contextCalls[id]]
          /\ handlerCalls' = [id \in DOMAIN handlerCalls |->
                                IF id \in wave /\ how[id] = "invoked"
                                  THEN handlerCalls[id] + 1 ELSE handlerCalls[id]]
          /\ promise' = [id \in DOMAIN promise |->
                           IF id \in wave THEN "pending" ELSE promise[id]]
  /\ waveIndex' = waveIndex + 1
  /\ pc' = "executing"
  /\ UNCHANGED <<inputVars, built, settledAs, results, failed, completed, progressLog,
                 returned>>
  /\ UNCHANGED otherVars

\* onProgress?.(completed, graph.totalOperations, operation)
CallbackOutcomes == IF onProgress = "callback" THEN {"return", "throw"} ELSE {"return"}

Report(log, count, id) ==
  IF onProgress = "undefined" THEN log ELSE Append(log, <<count, graph.totalOperations, id>>)

\* the catch block of the wave callback, entered with the state st
catchBlock(st, id, thrown, callback) ==
  [results     |-> MapSet(st.results, id, ErrorResult(thrown)),
   failed      |-> Append(st.failed, id),
   completed   |-> st.completed + 1,
   progressLog |-> Report(st.progressLog, st.completed + 1, id),
   promise     |-> IF callback = "throw" THEN "rejected" ELSE "fulfilled"]

\* the try block of the wave callback once executeOperation has settled
tryBlock(st, id, outcome, callback1, callback2) ==
  IF outcome.threw
    THEN catchBlock(st, id, outcome.thrown, callback2)
    ELSE LET after == [results     |-> MapSet(st.results, id, outcome.result),
                       failed      |-> IF ~outcome.result.success
                                         THEN Append(st.failed, id) ELSE st.failed,
                       completed   |-> st.completed + 1,
                       progressLog |-> Report(st.progressLog, st.completed + 1, id),
                       promise     |-> "fulfilled"]
         IN IF callback1 = "throw"
              THEN catchBlock(after, id, CallbackThrown, callback2)
              ELSE after

\* the continuation of the wave callback of one operation
Settle(id) ==
  /\ pc \in {"executing", "rejected"}
  /\ promise[id] = "pending"
  /\ \E handlerOutcome \in {"ok", "fail", "throw"}, callback1, callback2 \in CallbackOutcomes :
       LET st == [results |-> results, failed |-> failed, completed |-> completed,
                  progressLog |-> progressLog, promise |-> "pending"]
           outcome == OperationOutcome(inflight[id], handlerOutcome)
           nx == tryBlock(st, id, outcome, callback1, callback2)
       IN /\ settledAs' = [settledAs EXCEPT ![id] =
                             IF outcome.threw THEN "threw"
                             ELSE IF outcome.result.success THEN "ok" ELSE "failed"]
          /\ results' = nx.results
          /\ failed' = nx.failed
          /\ completed' = nx.completed
          /\ progressLog' = nx.progressLog
          /\ promise' = [promise EXCEPT ![id] = nx.promise]
  /\ UNCHANGED <<inputVars, pc, built, waveIndex, inflight, contextCalls, handlerCalls, returned>>
  /\ UNCHANGED otherVars

\* await Promise.all(wavePromises) throws: a wave promise was rejected
Reject ==
  /\ pc = "executing"
  /\ \E id \in DOMAIN promise : promise[id] = "rejected"
  /\ pc' = "rejected"
  /\ UNCHANGED <<inputVars, built, execVars>>
  /\ UNCHANGED otherVars

\* the loop is over: return { success: failed.length === 0, results, failed }
Return ==
  /\ pc \in {"built", "executing"}
  /\ waveIndex = Len(graph.waves)
  /\ WaveSettled
  /\ returned' = [success |-> (Len(failed) = 0), results |-> results, failed |-> failed]
  /\ pc' = "resolved"
  /\ UNCHANGED <<inputVars, built, waveIndex, promise, inflight, contextCalls, handlerCalls,
                 settledAs, results, failed, completed, progressLog>>
  /\ UNCHANGED otherVars

\* ---------------------------------------------------------------------------
\* filterGraphByPhases and mergeGraphs applied to built graphs
\* ---------------------------------------------------------------------------

\* the distributions of a plugin list, in the order of their first entry
distributionsOf(list) ==
  SetAddAll(<<>>, [k \in DOMAIN list |-> list[k].distribution])

\* the entries of one distribution, in the order of the list
pluginsOf(list, distribution) == SelectSeq(list, LAMBDA p : p.distribution = distribution)

\* buildExecutionGraph(pluginsOf(d), { ...options, distributions: [d] }) for
\* every distribution d of the list
BuildParts ==
  /\ pc \in {"built", "threw"}
  /\ ~parts.done
  /\ parts' = [done   |-> TRUE,
               builds |-> LET names == distributionsOf(plugins)
                          IN [n \in DOMAIN names |->
                                buildExecutionGraph(pluginsOf(plugins, names[n]),
                                                    [options EXCEPT !.distributions = <<names[n]>>])]]
  /\ UNCHANGED <<inputVars, pc, built, execVars, pipelineResults, merged, filtered,
                 pipelineVars, loaderVars>>

\* graphs that share operation ids: the graph of the list, the graph of the
\* list in reverse order, and what filterGraphByPhases made of them
Derive ==
  /\ pc = "built"
  /\ filtered.done
  /\ ~parts.done
  /\ LET reversed == buildExecutionGraph([k \in DOMAIN plugins |-> plugins[Len(plugins) + 1 - k]],
                                         options)
         whole    == [error |-> "none", graph |-> graph]
         part     == [error |-> "none", graph |-> filtered.graph]
         reversedPart == [error |-> reversed.error,
                          graph |-> filterGraphByPhases(reversed.graph, filtered.phases)]
     IN \E builds \in {<<whole, whole>>, <<part, whole>>, <<whole, part>>, <<whole, reversed>>,
                        <<whole, reversedPart>>, <<part, reversed, whole>>} :
          parts' = [done |-> TRUE, builds |-> builds]
  /\ UNCHANGED <<inputVars, pc, built, execVars, pipelineResults, merged, filtered,
                 pipelineVars, loaderVars>>

\* mergeGraphs([g1, ..., gn]) of the graphs in parts
Merge ==
  /\ parts.done
  /\ ~merged.done
  /\ \A n \in DOMAIN parts.builds : parts.builds[n].error = "none"
  /\ LET result == mergeGraphs([n \in DOMAIN parts.builds |-> parts.builds[n].graph])
     IN merged' = [done |-> TRUE, error |-> result.error, graph |-> result.graph]
  /\ UNCHANGED <<inputVars, pc, built, execVars, pipelineResults, parts, filtered,
                 pipelineVars, loaderVars>>

\* filterGraphByPhases(graph, phases) of the graph built from the whole list
Filter ==
  /\ pc = "built"
  /\ ~filtered.done
  /\ \E phaseSet \in FilterPhases :
       filtered' = [done |-> TRUE, phases |-> phaseSet,
                    graph |-> filterGraphByPhases(graph, phaseSet)]
  /\ UNCHANGED <<inputVars, pc, built, execVars, pipelineResults, parts, merged,
                 pipelineVars, loaderVars>>

\* ---------------------------------------------------------------------------
\* runPipelineGraph: the conversion of the graph result to pipeline results
\* ---------------------------------------------------------------------------

phaseOps(distName, phase) ==
  SelectSeq(AllOperations, LAMBDA op : op.distribution = distName /\ op.phase = phase)

\* r?.success ?? false, for r = graphResult.results.get(id)
resultSuccess(graphResult, id) ==
  IF id \in DOMAIN graphResult.results THEN graphResult.results[id].success ELSE FALSE

\* variant of phaseSuccess: some() in place of every()
phaseSuccess_Some(graphResult, ops) ==
  \E k \in DOMAIN ops : resultSuccess(graphResult, ops[k].id)

\* phaseOpResults.every((r) => r?.success ?? false)
phaseSuccess(graphResult, ops) ==
  \A k \in DOMAIN ops : resultSuccess(graphResult, ops[k].id)

\* phaseOpResults.find((r) => !r?.success)?.error
phaseError(graphResult, ops) ==
  LET failing == SelectSeq(ops, LAMBDA op : ~resultSuccess(graphResult, op.id))
  IN IF failing = <<>> \/ Head(failing).id \notin DOMAIN graphResult.results
       THEN Undefined
       ELSE graphResult.results[Head(failing).id].error

\* variant of foldDistribution: success is the success of the whole run
foldDistribution_WholeRun(graphResult, distName) ==
  LET present == {phase \in Range(PHASE_IDS) : phaseOps(distName, phase) # <<>>}
  IN [success |-> graphResult.success,
      phases  |-> [phase \in present |->
                     [success |-> phaseSuccess(graphResult, phaseOps(distName, phase)),
                      error   |-> phaseError(graphResult, phaseOps(distName, phase))]]]

\* the PipelineResult of one distribution
foldDistribution(graphResult, distName) ==
  LET present == {phase \in Range(PHASE_IDS) : phaseOps(distName, phase) # <<>>}
      phaseResults ==
        [phase \in present |->
           [success |-> phaseSuccess(graphResult, phaseOps(distName, phase)),
            error   |-> phaseError(graphResult, phaseOps(distName, phase))]]
  IN [success |-> \A phase \in present : phaseResults[phase].success,
      phases  |-> phaseResults]

\* runPipelineGraph after executeGraph has resolved
Fold ==
  /\ pc = "resolved"
  /\ entry.name # "executeGraph"
  /\ onProgress = "logger"
  /\ ResolvedInOrder(plugins)
  /\ IsGraphOptions(options)
  /\ pipelineResults' = [d \in Range(distNames) |-> foldDistribution(returned, d)]
  /\ pc' = "folded"
  /\ UNCHANGED <<inputVars, built, execVars, graphOpsVars, pipelineVars, loaderVars>>

\* ---------------------------------------------------------------------------
\* runPipeline / runPhase: the sequential mode
\* ---------------------------------------------------------------------------

\* const phases: PhaseId[] = ["preprocess", "transform", "postprocess"]
phases == <<"preprocess", "transform", "postprocess">>

\* the position, from k on, of the next resolved plugin that has a handler
\* for the phase, 0 when there is none: if (!handler) continue
nextWithHandler(phase, k) ==
  LET having == {i \in k..Len(plugins) : phase \in plugins[i].plugin.handlers}
  IN IF having = {} THEN 0 ELSE CHOOSE i \in having : \A j \in having : i <= j

\* variant of handlerAwaited: the handler is called without await
handlerAwaited_Not == runPc \in {"runPhase", "awaiting"}

\* the for loop of runPhase goes on only when the awaited handler has settled
handlerAwaited == runPc = "runPhase"

\* variant of phaseAborted: a reported failure is logged, the loop goes on
phaseAborted_OnThrow(outcome) == outcome = "throw"

\* runPhase returns at once when the handler reported failure or threw
phaseAborted(outcome) == outcome # "ok"

\* the PluginPhaseResult that runPhase returns early
failedPhaseResult(outcome) ==
  [success |-> FALSE,
   error   |-> IF outcome = "throw" THEN "Plugin threw: " \o ErrorText(HandlerThrown)
               ELSE HandlerResult(outcome).error]

\* runPipeline is called and reaches the for loop over the phases
StartPipeline ==
  /\ runPc = "idle"
  /\ runPc' = "phases"
  /\ UNCHANGED <<graphVars, loaderVars, phaseCursor, pluginCursor,
                 running, invocations, outcomes, state, pipelineResult>>

\* for (const phase of phases): if (state.aborted) break; runPhase(phase, ...)
StartPhase ==
  /\ runPc = "phases"
  /\ ~state.aborted
  /\ phaseCursor < Len(phases)
  /\ phaseCursor' = phaseCursor + 1
  /\ pluginCursor' = 1
  /\ runPc' = "runPhase"
  /\ UNCHANGED <<graphVars, loaderVars, running, invocations,
                 outcomes, state, pipelineResult>>

\* runPhase: the loop skips the plugins without a handler and calls the next
\* handler
Invoke ==
  /\ handlerAwaited
  /\ LET phase == phases[phaseCursor]
         k     == nextWithHandler(phase, pluginCursor)
     IN /\ k # 0
        /\ pluginCursor' = k
        /\ running' = running \cup {<<phase, k>>}
        /\ invocations' = Append(invocations, <<phase, k>>)
  /\ runPc' = "awaiting"
  /\ UNCHANGED <<graphVars, loaderVars, phaseCursor, outcomes, state,
                 pipelineResult>>

\* the awaited handler returns a result or throws
HandlerSettles ==
  /\ runPc = "awaiting"
  /\ \E outcome \in {"ok", "fail", "throw"} :
       LET phase == phases[phaseCursor]
       IN /\ running' = running \ {<<phase, pluginCursor>>}
          /\ outcomes' = Append(outcomes, outcome)
          /\ IF phaseAborted(outcome)
               THEN /\ state' = [phaseResults |-> MapSet(state.phaseResults, phase,
                                                         failedPhaseResult(outcome)),
                                 aborted      |-> TRUE]
                    /\ runPc' = "phases"
                    /\ UNCHANGED pluginCursor
               ELSE /\ pluginCursor' = pluginCursor + 1
                    /\ runPc' = "runPhase"
                    /\ UNCHANGED state
  /\ UNCHANGED <<graphVars, loaderVars, phaseCursor, invocations,
                 pipelineResult>>

\* runPhase: the loop is over, the phase succeeded
EndPhase ==
  /\ runPc = "runPhase"
  /\ nextWithHandler(phases[phaseCursor], pluginCursor) = 0
  /\ state' = [state EXCEPT !.phaseResults =
                 MapSet(state.phaseResults, phases[phaseCursor],
                        [success |-> TRUE, error |-> Undefined])]
  /\ runPc' = "phases"
  /\ UNCHANGED <<graphVars, loaderVars, phaseCursor, pluginCursor,
                 running, invocations, outcomes, pipelineResult>>

\* return { success: !state.aborted, phases: state.phaseResults, ... }
ReturnPipeline ==
  /\ runPc = "phases"
  /\ state.aborted \/ phaseCursor = Len(phases)
  /\ pipelineResult' = [success |-> ~state.aborted, phases |-> state.phaseResults]
  /\ runPc' = "returned"
  /\ UNCHANGED <<graphVars, loaderVars, phaseCursor, pluginCursor,
                 running, invocations, outcomes, state>>

\* ---------------------------------------------------------------------------
\* plugins/mod.ts: loadPlugin and resolvePlugins
\* ---------------------------------------------------------------------------

ThisId == "@this"

\* a PluginReference: a bare id string, or an InlinePluginConfig object whose
\* options property is Undefined when it is left out
Reference(kind, id, pluginOptions) == [kind |-> kind, id |-> id, options |-> pluginOptions]

\* typeof ref === "string" ? { id: ref } : ref
normalizeReference(ref) ==
  [id |-> ref.id, options |-> IF ref.kind = "string" THEN Undefined ELSE ref.options]

\* plugin.metadata.id of the plugin that the module with this id exports: a
\* plugin loaded from a path is registered under its own metadata id
MetadataId(id) == IF id = "./y" THEN "y" ELSE id

\* a property of a metadata object: whether typeof value === "string", and
\* the string
Text(s) == [isString |-> TRUE, text |-> s]

\* module.default ?? module: the metadata object and, for every phase
\* property the object has, the typeof of its value
Export(id, name, version, fields) ==
  [metadata |-> [id |-> id, name |-> name, version |-> version], fields |-> fields]

\* what the module with this id exports, by the name of the kind of export
ModuleExport(kind, id) ==
  CASE kind = "plugin" ->
         Export(Text(MetadataId(id)), Text("n"), Text("1.0.0"), [ph \in {"transform"} |-> "function"])
    [] kind = "unnamed" ->
         Export(Text(MetadataId(id)), Text(""), Text(""), [ph \in {"transform"} |-> "function"])
    [] kind = "setupNumber" ->
         Export(Text(MetadataId(id)), Text("n"), Text("1.0.0"),
                [ph \in {"setup", "transform"} |-> IF ph = "setup" THEN "number" ELSE "function"])
    [] kind = "transformNumber" ->
         Export(Text(MetadataId(id)), Text("n"), Text("1.0.0"), [ph \in {"transform"} |-> "number"])

\* the outcomes of import(id): the import throws, or the module exports one
\* of these objects
ImportOutcomes(id) ==
  IF id = "./y"
    THEN {"throws", "plugin", "unnamed", "setupNumber", "transformNumber"}
    ELSE {"throws", "plugin"}

\* typeof m.id === "string" && m.id.length > 0 && typeof m.name === "string"
\* && typeof m.version === "string"
validatePluginMetadata(m) ==
  /\ m.id.isString
  /\ m.id.text # ""
  /\ m.name.isString
  /\ m.version.isString

\* valid metadata, and each of preprocess, transform and postprocess that the
\* object has is a function
isValidPlugin(obj) ==
  /\ validatePluginMetadata(obj.metadata)
  /\ \A phase \in {"preprocess", "transform", "postprocess"} :
       phase \in DOMAIN obj.fields => obj.fields[phase] = "function"

\* doLoadPlugin(id) for an id that is not built in, given the outcome of the
\* import: the state of its promise and the pluginId of the PluginError
doLoadPlugin(id, outcome) ==
  IF outcome = "throws"
    THEN [state |-> "rejected", pluginId |-> id]
    ELSE IF ~isValidPlugin(ModuleExport(outcome, id))
      THEN [state |-> "rejected", pluginId |-> id]
      ELSE [state |-> "fulfilled", pluginId |-> "none"]

\* the plugin object that the n-th doLoadPlugin call yields
LoadedPlugin(id, n) == [module |-> id, load |-> n]

NoPlugin == [module |-> "none", load |-> 0]

\* createCustomScriptPlugin(distConfig)
ThisPlugin == [module |-> ThisId, load |-> 0]

\* createThisPlugin(distConfig)
createThisPlugin == [plugin |-> ThisPlugin,
                     config |-> [id |-> ThisId, options |-> Undefined],
                     isThis |-> TRUE]

\* variant of MapRemove: the entry is kept
MapRemove_Kept(map, key) == map

\* Map.prototype.delete
MapRemove(map, key) == [k \in DOMAIN map \ {key} |-> map[k]]

\* variant of existingPromise: the in-flight promise is never found
existingPromise_None(promises, id) == 0

\* loadPromises.get(id), 0 for undefined
existingPromise(promises, id) == IF id \in DOMAIN promises THEN promises[id] ELSE 0

\* loadPlugin(id) up to its first await, on the caches in st; the call is
\* appended to st.calls
loadPlugin(st, id) ==
  IF id \in DOMAIN st.registry
    THEN [st EXCEPT !.calls = Append(@, [id |-> id, via |-> "registry", pc |-> "done",
                                         promise |-> 0, plugin |-> st.registry[id]])]
    ELSE IF existingPromise(st.loadPromises, id) # 0
      THEN [st EXCEPT !.calls = Append(@, [id |-> id, via |-> "joined", pc |-> "joined",
                                           promise |-> existingPromise(st.loadPromises, id),
                                           plugin |-> NoPlugin])]
      ELSE [st EXCEPT !.loads = Append(@, [id |-> id, state |-> "pending",
                                           imported |-> "pending", pluginId |-> "none"]),
                      !.loadPromises = MapSet(@, id, Len(st.loads) + 1),
                      !.calls = Append(@, [id |-> id, via |-> "started", pc |-> "awaiting",
                                           promise |-> Len(st.loads) + 1,
                                           plugin |-> NoPlugin])]

\* uniquePluginIds.map((id) => loadPlugin(id))
RECURSIVE loadAll(_, _)
loadAll(st, ids) == IF ids = <<>> THEN st ELSE loadAll(loadPlugin(st, Head(ids)), Tail(ids))

\* [...new Set(normalized.filter((c) => c.id !== "@this").map((c) => c.id))]
uniquePluginIds(references) ==
  SetAddAll(<<>>, SelectSeq([k \in DOMAIN references |-> normalizeReference(references[k]).id],
                            LAMBDA id : id # ThisId))

\* pluginMap.get(id)
pluginMapGet(loaded, id) == loaded[CHOOSE k \in DOMAIN loaded : loaded[k].id = id].plugin

\* normalized.map((config) => ...), the array resolvePlugins returns
resolvedArray(references, loaded) ==
  [k \in DOMAIN references |->
     LET config == normalizeReference(references[k])
     IN IF config.id = ThisId
          THEN createThisPlugin
          ELSE [plugin |-> pluginMapGet(loaded, config.id), config |-> config, isThis |-> FALSE]]

\* reference lists as they appear in a distribution's plugins field
ReferenceLists ==
  {<<>>,
   <<Reference("string", "x", Undefined)>>,
   <<Reference("string", "x", Undefined), Reference("object", "./y", "{x:1}"),
     Reference("object", "x", "{x:2}")>>,
   <<Reference("string", ThisId, Undefined), Reference("object", "./y", Undefined)>>,
   <<Reference("object", ThisId, "{x:1}")>>,
   <<Reference("string", ThisId, Undefined)>>}

\* the custom script paths matter to resolvePlugins only as hasCustomScripts
DistributionConfigs ==
  {[plugins |-> references, hasCustomScripts |-> scripts] :
     references \in ReferenceLists, scripts \in BOOLEAN}
  \ {[plugins |-> references, hasCustomScripts |-> TRUE] :
       references \in {l \in ReferenceLists : Len(l) > 1 \/ (Len(l) = 1 /\ l[1].kind = "string")}}

\* resolvePlugins(distConfig.plugins, distConfig) up to its await
Resolve(r) ==
  /\ resolvePc[r] = "idle"
  /\ LET references == distConfigs[r].plugins
     IN IF references = <<>>
          THEN /\ resolved' = [resolved EXCEPT ![r] =
                                 IF distConfigs[r].hasCustomScripts
                                   THEN <<createThisPlugin>> ELSE <<>>]
               /\ resolvePc' = [resolvePc EXCEPT ![r] = "returned"]
               /\ UNCHANGED <<loadPromises, loads, calls>>
          ELSE LET st == loadAll([registry |-> registry, loadPromises |-> loadPromises,
                                  loads |-> loads, calls |-> <<>>],
                                 uniquePluginIds(references))
               IN /\ loadPromises' = st.loadPromises
                  /\ loads' = st.loads
                  /\ calls' = [calls EXCEPT ![r] = st.calls]
                  /\ resolvePc' = [resolvePc EXCEPT ![r] = "loading"]
                  /\ UNCHANGED resolved
  /\ UNCHANGED <<graphVars, pipelineVars, distConfigs, registry>>

\* the promise of one doLoadPlugin call settles: the module exports a valid
\* plugin, or the import or the validation fails with a PluginError
LoadSettles(n) ==
  /\ loads[n].state = "pending"
  /\ \E outcome \in ImportOutcomes(loads[n].id) :
       LET settled == doLoadPlugin(loads[n].id, outcome)
       IN loads' = [loads EXCEPT ![n].state = settled.state,
                                 ![n].imported = outcome,
                                 ![n].pluginId = settled.pluginId]
  /\ UNCHANGED <<graphVars, pipelineVars, distConfigs, registry, loadPromises, calls,
                 resolvePc, resolved>>

\* loadPlugin after its await: the call that started the load registers the
\* plugin, or removes the failed promise; a call that was handed the
\* existing promise only receives its outcome
AfterLoad(r, k) ==
  LET call == calls[r][k]
  IN /\ call.pc \in {"awaiting", "joined"}
     /\ loads[call.promise].state # "pending"
     /\ IF loads[call.promise].state = "fulfilled"
          THEN LET plugin == LoadedPlugin(call.id, call.promise)
               IN /\ calls' = [calls EXCEPT ![r][k].pc = "done", ![r][k].plugin = plugin]
                  /\ registry' = IF call.pc = "awaiting"
                                   THEN MapSet(registry, MetadataId(call.id), plugin)
                                   ELSE registry
                  /\ UNCHANGED loadPromises
          ELSE /\ calls' = [calls EXCEPT ![r][k].pc = "failed"]
               /\ loadPromises' = IF call.pc = "awaiting"
                                    THEN MapRemove(loadPromises, call.id)
                                    ELSE loadPromises
               /\ UNCHANGED registry
     /\ UNCHANGED <<graphVars, pipelineVars, distConfigs, loads, resolvePc, resolved>>

\* await Promise.all(...) returns and the resolved array is built
ReturnResolved(r) ==
  /\ resolvePc[r] = "loading"
  /\ \A k \in DOMAIN calls[r] : calls[r][k].pc = "done"
  /\ resolved' = [resolved EXCEPT ![r] = resolvedArray(distConfigs[r].plugins, calls[r])]
  /\ resolvePc' = [resolvePc EXCEPT ![r] = "returned"]
  /\ UNCHANGED <<graphVars, pipelineVars, distConfigs, registry, loadPromises, loads, calls>>

\* await Promise.all(...) throws the PluginError of a failed load
RejectResolved(r) ==
  /\ resolvePc[r] = "loading"
  /\ \E k \in DOMAIN calls[r] : calls[r][k].pc = "failed"
  /\ resolvePc' = [resolvePc EXCEPT ![r] = "rejected"]
  /\ UNCHANGED <<graphVars, pipelineVars, distConfigs, registry, loadPromises, loads, calls,
                 resolved>>

\* ---------------------------------------------------------------------------
\* Specifications
\* ---------------------------------------------------------------------------

Next ==
  \/ Build
  \/ DispatchWave
  \/ \E id \in DOMAIN promise : Settle(id)
  \/ Reject
  \/ Return
  \/ Fold

Spec == Init /\ [][Next]_vars

\* the builder alone, over the larger input set
NextBuild == Build

SpecBuild == InitBuild /\ [][NextBuild]_vars

\* the graph engine when the event loop runs every continuation that is
\* ready and every invoked handler settles
SpecLive ==
  /\ Init
  /\ [][Next]_vars
  /\ WF_vars(DispatchWave)
  /\ WF_vars(\E id \in DOMAIN promise : Settle(id))
  /\ WF_vars(Reject)
  /\ WF_vars(Return)

\* the sequential mode, over one distribution's resolved plugins
InitPipeline ==
  /\ plugins \in Lists(PipelineEntries, MaxPipelinePlugins)
  /\ options = Opt(<<DistD>>, FALSE, {}, "false", "false")
  /\ onProgress = "undefined"
  /\ entry = DirectCall
  /\ InitRest
  /\ InitPipelineRest
  /\ distConfigs = <<>>
  /\ InitLoaderRest

NextPipeline ==
  \/ StartPipeline
  \/ StartPhase
  \/ Invoke
  \/ HandlerSettles
  \/ EndPhase
  \/ ReturnPipeline

SpecPipeline == InitPipeline /\ [][NextPipeline]_vars

\* the builder followed by filterGraphByPhases and mergeGraphs
InitGraphOps ==
  /\ plugins \in Lists(GraphOpsEntries, MaxMergePlugins)
  /\ options \in GraphOpsOptions
  /\ onProgress = "undefined"
  /\ entry = DirectCall
  /\ InitRest
  /\ InitPipelineRest
  /\ distConfigs = <<>>
  /\ InitLoaderRest

NextGraphOps ==
  \/ Build
  \/ BuildParts
  \/ Merge
  \/ Filter

SpecGraphOps == InitGraphOps /\ [][NextGraphOps]_vars

\* mergeGraphs on graphs that share operation ids or were filtered first
NextDerived ==
  \/ Build
  \/ Filter
  \/ Derive
  \/ Merge

SpecDerived == InitGraphOps /\ [][NextDerived]_vars

\* the graph mode behind its entry points: the options of the builder are
\* the graphOptions of the call, the progress callback is the logging one
InitEntry ==
  /\ entry \in [name : {"runPipelineGraph", "runSetup", "runBuild", "runRelease"},
                options : CallerOptions]
  /\ plugins \in {list \in Lists(EntryEntries, MaxEntryPlugins) : ResolvedInOrder(list)}
  /\ options = graphOptions(entryOptions(entry))
  /\ onProgress = "logger"
  /\ InitRest
  /\ InitPipelineRest
  /\ distConfigs = <<>>
  /\ InitLoaderRest

NextEntry ==
  \/ Build
  \/ DispatchWave
  \/ \E id \in DOMAIN promise : Settle(id)
  \/ Return
  \/ Fold

SpecEntry == InitEntry /\ [][NextEntry]_vars

\* concurrent resolvePlugins calls on the module-level caches
InitLoad ==
  /\ plugins = <<>>
  /\ options = Opt(<<DistD>>, FALSE, {}, "false", "false")
  /\ onProgress = "undefined"
  /\ entry = DirectCall
  /\ InitRest
  /\ InitPipelineRest
  /\ distConfigs \in [1..MaxResolveCalls -> DistributionConfigs]
  /\ InitLoaderRest

NextLoad ==
  \/ \E r \in DOMAIN distConfigs : Resolve(r)
  \/ \E n \in DOMAIN loads : LoadSettles(n)
  \/ \E r \in DOMAIN distConfigs : \E k \in DOMAIN calls[r] : AfterLoad(r, k)
  \/ \E r \in DOMAIN distConfigs : ReturnResolved(r)
  \/ \E r \in DOMAIN distConfigs : RejectResolved(r)

SpecLoad == InitLoad /\ [][NextLoad]_vars

\* ---------------------------------------------------------------------------
\* Derived notions used by the properties
\* ---------------------------------------------------------------------------

\* index (from 0) of the wave that holds the operation with this id
WaveOf(id) ==
  (CHOOSE k \in DOMAIN graph.waves : id \in Range(WaveIds(k))) - 1

Settled(id) == promise[id] \in {"fulfilled", "rejected"}

Dispatched(id) == promise[id] # "unmapped" \/ contextCalls[id] > 0 \/ handlerCalls[id] > 0

\* the operations and dependencies the builder derives from the input
InputNodes == createNodes(<<>>, plugins, phasesToInclude(options))

InputDependencies == addDependencyEdges(InputNodes, plugins)

RECURSIVE ReachableFrom(_, _)
ReachableFrom(dependencies, ids) ==
  LET more == ids \cup UNION {Range(dependencies[id]) : id \in ids \cap DOMAIN dependencies}
  IN IF more = ids THEN ids ELSE ReachableFrom(dependencies, more)

\* some operation reaches itself along dependency edges
HasCycle(dependencies) ==
  \E id \in DOMAIN dependencies :
    id \in ReachableFrom(dependencies, Range(dependencies[id]))

RECURSIVE SumLen(_)
SumLen(ws) == IF ws = <<>> THEN 0 ELSE Len(Head(ws).operations) + SumLen(Tail(ws))

\* number of places in the waves at which the operation id occurs
Occurrences(id) ==
  Len(SelectSeq(AllOperations, LAMBDA operation : operation.id = id))

\* ---------------------------------------------------------------------------
\* Properties
\* ---------------------------------------------------------------------------

\* C1: in executeGraph the handler of an operation a has been invoked only if
\* every operation b in a's edge list is an operation of the graph whose wave
\* promise has settled (its handler returned or threw).
C1_DependenciesSettledFirst ==
  pc \in {"executing", "resolved", "rejected"} =>
    \A a \in AllIds :
      handlerCalls[a] > 0 =>
        \A b \in Range(graph.edges[a]) : b \in AllIds /\ Settled(b)

\* a handler was invoked whose operation depends on an operation that failed
C1_Witness ==
  /\ pc = "executing"
  /\ \E a \in AllIds :
       /\ handlerCalls[a] > 0
       /\ \E b \in Range(graph.edges[a]) : settledAs[b] \in {"failed", "threw"}

\* C2: an operation of wave k+1 is dispatched (its wave promise created, its
\* context requested or its handler invoked) only after every operation of
\* wave k has settled.
C2_WaveBarrier ==
  pc \in {"executing", "resolved", "rejected"} =>
    \A k \in DOMAIN graph.waves :
      k + 1 \in DOMAIN graph.waves =>
        ((\E id \in Range(WaveIds(k + 1)) : Dispatched(id))
           => \A id \in Range(WaveIds(k)) : Settled(id))

\* the second wave is in flight after a first wave of two operations in which
\* one threw and one reported failure
C2_Witness ==
  /\ pc = "executing"
  /\ Len(graph.waves) >= 2
  /\ \E id \in Range(WaveIds(2)) : promise[id] = "pending"
  /\ \E x, y \in Range(WaveIds(1)) : settledAs[x] = "threw" /\ settledAs[y] = "failed"

\* C3: when the dependencies derived from the input are acyclic, the builder
\* returns a graph with hasCycles = FALSE in which every created operation
\* occurs in exactly one place of exactly one wave, no wave is empty, and
\* totalOperations is the sum of the wave sizes.
C3_WavesPartition ==
  (pc # "start" /\ ~HasCycle(InputDependencies)) =>
    /\ pc # "threw"
    /\ graph.hasCycles = FALSE
    /\ LET created == Range(NodeIds(InputNodes))
       IN /\ \A id \in created : Occurrences(id) = 1
          /\ AllIds = created
    /\ \A k \in DOMAIN graph.waves : graph.waves[k].operations # <<>>
    /\ \A k \in DOMAIN graph.waves : graph.waves[k].index = k - 1
    /\ graph.totalOperations = SumLen(graph.waves)

\* a returned graph with at least two waves, one of them with two operations
C3_Witness ==
  /\ pc = "built"
  /\ Len(graph.waves) >= 2
  /\ \E k \in DOMAIN graph.waves : Len(graph.waves[k].operations) >= 2

\* C4: in a returned graph every dependency b listed for an operation a is an
\* operation of the graph and lies in a strictly earlier wave than a.
C4_EdgesPointToEarlierWaves ==
  pc = "built" =>
    /\ DOMAIN graph.edges = AllIds
    /\ \A a \in DOMAIN graph.edges :
         \A b \in Range(graph.edges[a]) : b \in AllIds /\ WaveOf(b) < WaveOf(a)

\* a returned graph with an operation that has two dependencies
C4_Witness ==
  /\ pc = "built"
  /\ \E a \in DOMAIN graph.edges : Len(graph.edges[a]) >= 2

PhaseRank(phase) ==
  CASE phase = "preprocess"  -> 1
    [] phase = "transform"   -> 2
    [] phase = "postprocess" -> 3
    [] phase = "release"     -> 4
    [] OTHER                 -> 0

\* C5: in a returned graph, of two operations of one distribution whose
\* phases are ordered preprocess < transform < postprocess < release, the
\* one with the earlier phase lies in a strictly earlier wave, also when the
\* distribution has no transform operation.  It is stated for operations
\* whose id has exactly the fields distribution:pluginId:phase, so that it
\* does not rest on parseOperationId.
C5_StrictPhaseOrdering ==
  pc = "built" =>
    \A i, j \in DOMAIN AllOperations :
      LET x == AllOperations[i]
          y == AllOperations[j]
      IN (/\ Len(x.id) = 3 /\ Len(y.id) = 3
          /\ x.distribution = y.distribution
          /\ PhaseRank(x.phase) > 0
          /\ PhaseRank(x.phase) < PhaseRank(y.phase))
           => WaveOf(x.id) < WaveOf(y.id)

\* C6: in a returned graph the edge list of every transform operation holds
\* every preprocess operation of the same distribution, and the edge list of
\* every postprocess operation holds every transform operation of the same
\* distribution.
C6_FullFanIn ==
  pc = "built" =>
    \A i, j \in DOMAIN AllOperations :
      LET x == AllOperations[i]
          y == AllOperations[j]
      IN (/\ x.distribution = y.distribution
          /\ \/ (x.phase = "preprocess" /\ y.phase = "transform")
             \/ (x.phase = "transform" /\ y.phase = "postprocess"))
           => x.id \in Range(graph.edges[y.id])

\* two operations of one distribution and one phase whose plugins each
\* declare the other in their dependencies
MutualDependency ==
  \E i, j \in DOMAIN InputNodes :
    LET a == InputNodes[i]
        b == InputNodes[j]
    IN /\ a.distribution = b.distribution
       /\ a.phase = b.phase
       /\ b.plugin.id \in Range(a.plugin.dependencies)
       /\ a.plugin.id \in Range(b.plugin.dependencies)

\* C7: the builder throws whenever the dependencies it derives contain a
\* cycle, it throws when two plugins of one distribution implement the same
\* phase and declare each other, and a graph it returns has no cycle and
\* hasCycles = FALSE.
C7_CyclesAreRejected ==
  pc # "start" =>
    /\ HasCycle(InputDependencies) => pc = "threw"
    /\ MutualDependency => pc = "threw"
    /\ pc = "built" => (graph.hasCycles = FALSE /\ ~HasCycle(graph.edges))

\* C8: once executeGraph has finished, every operation of the graph has been
\* run exactly once: its context was requested once and, unless that request
\* threw, its handler was invoked once; no handler is ever invoked twice.
C8_EveryOperationRuns ==
  /\ \A id \in DOMAIN handlerCalls : handlerCalls[id] <= 1
  /\ pc \in {"resolved", "rejected"} =>
       \A id \in AllIds :
         /\ contextCalls[id] = 1
         /\ inflight[id] # "ctxThrew" => handlerCalls[id] = 1

\* C9: an operation whose handler or context factory call threw is recorded
\* with success = FALSE and the text of the thrown value, is listed in
\* failed, and its wave promise is fulfilled, so executeGraph does not reject.
C9_ThrownErrorsAreData ==
  \A id \in DOMAIN settledAs :
    settledAs[id] = "threw" =>
      /\ id \in DOMAIN results
      /\ results[id].success = FALSE
      /\ results[id].error =
           ErrorText(IF inflight[id] = "ctxThrew" THEN ContextThrown ELSE HandlerThrown)
      /\ id \in Range(failed)
      /\ promise[id] = "fulfilled"
      /\ pc # "rejected"

\* C10: the returned results map has one entry per operation of the graph,
\* failed holds exactly the ids whose recorded result has success = FALSE,
\* each once, and success is TRUE exactly when failed is empty.
C10_Aggregation ==
  pc = "resolved" =>
    /\ DOMAIN returned.results = AllIds
    /\ Range(returned.failed) \subseteq AllIds
    /\ \A id \in AllIds :
         Len(SelectSeq(returned.failed, LAMBDA f : f = id))
           = (IF returned.results[id].success THEN 0 ELSE 1)
    /\ returned.success <=> (returned.failed = <<>>)

\* the input of the declared-dependency example: plugin A with only a
\* transform handler and no dependencies, plugin B with only a transform
\* handler and dependencies = [A], one distribution, in either order, with
\* transform among the requested phases
DeclaredDependencyExample ==
  /\ Len(plugins) = 2
  /\ "transform" \in phasesToInclude(options)
  /\ plugins[1].distribution = plugins[2].distribution
  /\ \E i, j \in {1, 2} :
       /\ plugins[i].plugin.id = IdA
       /\ plugins[i].plugin.handlers = {"transform"}
       /\ plugins[i].plugin.dependencies = <<>>
       /\ plugins[j].plugin.id = IdB
       /\ plugins[j].plugin.handlers = {"transform"}
       /\ plugins[j].plugin.dependencies = <<IdA>>

\* C17: for the declared-dependency example, in either order of A and B and
\* for any canParallelize flags, the builder returns a graph with
\* totalOperations = 2, the edge list of B's operation is exactly
\* [A's operation], and there are 2 waves with A's operation in the first.
C17_DeclaredDependencyExample ==
  (pc # "start" /\ DeclaredDependencyExample) =>
    LET dist == plugins[1].distribution
        opA  == dist \o IdA \o <<"transform">>
        opB  == dist \o IdB \o <<"transform">>
    IN /\ pc = "built"
       /\ graph.totalOperations = 2
       /\ opB \in DOMAIN graph.edges
       /\ graph.edges[opB] = <<opA>>
       /\ Len(graph.waves) = 2
       /\ WaveIds(1) = <<opA>>
       /\ WaveIds(2) = <<opB>>

\* C18: in a returned graph no two operations share an id, and the id of
\* every operation is distribution:pluginId:phase of its own distribution,
\* plugin metadata id and phase.
C18_OperationIds ==
  pc = "built" =>
    /\ \A i, j \in DOMAIN AllOperations :
         AllOperations[i].id = AllOperations[j].id => i = j
    /\ \A i \in DOMAIN AllOperations :
         LET x == AllOperations[i]
         IN x.id = x.distribution \o x.plugin.id \o <<x.phase>>

\* a returned graph of several operations built from a list that names the
\* same plugin twice for one distribution
C18_Witness ==
  /\ pc = "built"
  /\ Len(AllOperations) >= 2
  /\ \E i, j \in DOMAIN plugins :
       /\ i # j
       /\ plugins[i].distribution = plugins[j].distribution
       /\ plugins[i].plugin.id = plugins[j].plugin.id
       /\ plugins[i].plugin.handlers \cap plugins[j].plugin.handlers
            \cap phasesToInclude(options) # {}

\* the input of the wave-count example: one plugin that implements the
\* three build phases, one distribution, the three build phases requested
WaveCountExample ==
  /\ Len(plugins) = 1
  /\ plugins[1].plugin.handlers = {"preprocess", "transform", "postprocess"}
  /\ {"preprocess", "transform", "postprocess"} \subseteq phasesToInclude(options)

\* C19: for the wave-count example the builder returns exactly 3 waves of
\* 1 operation each, in the order preprocess, transform, postprocess,
\* whatever the plugin's canParallelize flag is.
C19_ThreeWaves ==
  (pc # "start" /\ WaveCountExample) =>
    /\ pc = "built"
    /\ Len(graph.waves) = 3
    /\ \A k \in 1..3 :
         /\ Len(graph.waves[k].operations) = 1
         /\ graph.waves[k].operations[1].phase = BUILD_PHASE_IDS[k]

\* C13: runPipelineGraph returns one PipelineResult per configured
\* distribution; a phase is present in it exactly when the graph holds an
\* operation of that distribution and phase, the success of a present phase
\* is the conjunction of the successes of those operations, and the success
\* of the distribution is the conjunction of its phase successes (TRUE with
\* an empty phases map when the graph holds no operation for it).
C13_GraphModeFold ==
  pc = "folded" =>
    /\ DOMAIN pipelineResults = Range(distNames)
    /\ \A d \in Range(distNames) :
         LET ops(phase) == {id \in AllIds : /\ OperationOf(id).distribution = d
                                            /\ OperationOf(id).phase = phase}
             present    == {phase \in Range(PHASE_IDS) : ops(phase) # {}}
         IN /\ DOMAIN pipelineResults[d].phases = present
            /\ \A phase \in present :
                 pipelineResults[d].phases[phase].success
                   <=> (\A id \in ops(phase) : settledAs[id] = "ok")
            /\ pipelineResults[d].success
                 <=> (\A phase \in present : pipelineResults[d].phases[phase].success)

\* a fold in which one distribution has no operation and the other has a
\* phase of two operations of which one succeeded and one did not
C13_Witness ==
  /\ pc = "folded"
  /\ \E d \in Range(distNames) : pipelineResults[d].phases = <<>>
  /\ \E a, b \in AllIds :
       /\ OperationOf(a).distribution = OperationOf(b).distribution
       /\ OperationOf(a).phase = OperationOf(b).phase
       /\ settledAs[a] = "ok"
       /\ settledAs[b] \in {"failed", "threw"}

\* C16: when buildExecutionGraph throws, the caller is left with the
\* GraphError (it returns no result), and no context has been requested and
\* no handler has been invoked for any operation the input describes.
C16_StructuralErrorsFirst ==
  built.error # "none" =>
    /\ pc = "threw"
    /\ \A id \in DOMAIN handlerCalls : handlerCalls[id] = 0 /\ contextCalls[id] = 0
    /\ waveIndex = 0
    /\ returned = NoResult
    /\ pipelineResults = <<>>

\* runPipelineGraph was rejected by a cycle among the transform operations
\* of two plugins that have handlers
C16_Witness ==
  /\ pc = "threw"
  /\ built.error = "Cycle detected in plugin dependency graph"
  /\ onProgress = "logger"
  /\ ResolvedInOrder(plugins)
  /\ IsGraphOptions(options)
  /\ Cardinality(DOMAIN handlerCalls) >= 2

\* C20: the progress callback is called once per operation, after the
\* operation has settled, with total = graph.totalOperations; the k-th call
\* carries completed = k, and when executeGraph has resolved there has been
\* exactly one call for every operation of the graph.
C20_ProgressCounts ==
  onProgress # "undefined" =>
    /\ \A k \in DOMAIN progressLog :
         /\ progressLog[k][1] = k
         /\ progressLog[k][2] = graph.totalOperations
         /\ settledAs[progressLog[k][3]] # "pending"
    /\ \A k, m \in DOMAIN progressLog : progressLog[k][3] = progressLog[m][3] => k = m
    /\ pc = "resolved" =>
         {progressLog[k][3] : k \in DOMAIN progressLog} = AllIds

\* every (phase, position) for which the resolved plugin at that position has
\* a handler, phase by phase and in resolved order within a phase
HandlersInOrder ==
  Flatten([p \in DOMAIN phases |->
             SelectSeq([k \in DOMAIN plugins |-> <<phases[p], k>>],
                       LAMBDA e : e[1] \in plugins[e[2]].plugin.handlers)])

IsPrefix(s, t) == Len(s) <= Len(t) /\ \A k \in DOMAIN s : s[k] = t[k]

\* C11: in sequential mode at most one handler is running at any moment,
\* the handlers are invoked in the order preprocess, transform, postprocess
\* and in resolved order within a phase, none is skipped, and a handler is
\* invoked only when every handler invoked before it has settled.
C11_SequentialOrder ==
  /\ Cardinality(running) <= 1
  /\ IsPrefix(invocations, HandlersInOrder)
  /\ Len(outcomes) <= Len(invocations)
  /\ running = {invocations[k] : k \in (Len(outcomes) + 1)..Len(invocations)}

\* a run over two plugins that share a phase in which every handler was
\* invoked and succeeded
C11_Witness ==
  /\ runPc = "returned"
  /\ invocations = HandlersInOrder
  /\ \E i, j \in DOMAIN invocations : i < j /\ invocations[i][1] = invocations[j][1]
  /\ \E i, j \in DOMAIN invocations : invocations[i][1] # invocations[j][1]

SomeHandlerFailed == \E k \in DOMAIN outcomes : outcomes[k] # "ok"

\* C12: in sequential mode a handler that reports failure or throws is the
\* last handler invoked; runPipeline then returns success = FALSE with a
\* failed result for the phase of that handler, a successful result for
\* every earlier phase and no entry for any later phase.
C12_SequentialAbort ==
  /\ \A k \in DOMAIN outcomes : outcomes[k] # "ok" => k = Len(invocations)
  /\ SomeHandlerFailed =>
       /\ runPc \in {"phases", "returned"}
       /\ state.aborted
       /\ running = {}
  /\ (runPc = "returned" /\ SomeHandlerFailed) =>
       LET failedAt == IndexOf(phases, invocations[Len(invocations)][1]) + 1
       IN /\ pipelineResult.success = FALSE
          /\ DOMAIN pipelineResult.phases = {phases[p] : p \in 1..failedAt}
          /\ \A p \in 1..failedAt :
               pipelineResult.phases[phases[p]].success <=> p < failedAt
  /\ (runPc = "returned" /\ ~SomeHandlerFailed) =>
       /\ pipelineResult.success = TRUE
       /\ DOMAIN pipelineResult.phases = Range(phases)

\* runPipeline returned after a handler threw while a later plugin of the
\* same phase and a handler of a later phase had not been invoked
C12_Witness ==
  /\ runPc = "returned"
  /\ outcomes # <<>>
  /\ outcomes[Len(outcomes)] = "throw"
  /\ LET last == invocations[Len(invocations)]
     IN /\ last[1] = "transform"
        /\ \E k \in DOMAIN plugins : k > last[2] /\ "transform" \in plugins[k].plugin.handlers
        /\ \E k \in DOMAIN plugins : "postprocess" \in plugins[k].plugin.handlers

\* every loadPlugin call made so far, as <<resolvePlugins call, position>>
AllCalls == {<<r, k>> : r \in DOMAIN calls, k \in 1..3} \cap
            {c \in (DOMAIN calls) \X (1..3) : c[2] \in DOMAIN calls[c[1]]}

CallOf(c) == calls[c[1]][c[2]]

\* C14: for one id a doLoadPlugin call is started only when every earlier
\* one for that id has failed, so at most one is in flight and none follows
\* a successful one; all loadPlugin calls for one id that have returned a
\* plugin have returned the same plugin object.
C14_SingleFlight ==
  /\ \A n, m \in DOMAIN loads :
       (n < m /\ loads[n].id = loads[m].id) => loads[n].state = "rejected"
  /\ \A c, d \in AllCalls :
       (CallOf(c).id = CallOf(d).id /\ CallOf(c).pc = "done" /\ CallOf(d).pc = "done")
         => CallOf(c).plugin = CallOf(d).plugin

\* two overlapping calls for one id: the second was handed the promise of
\* the load the first had started, and both received the plugin
C14_Witness ==
  \E c, d \in AllCalls :
    /\ CallOf(c).id = CallOf(d).id
    /\ CallOf(c).via = "started" /\ CallOf(c).pc = "done"
    /\ CallOf(d).via = "joined" /\ CallOf(d).pc = "done"
    /\ CallOf(c).plugin = CallOf(d).plugin

\* C15: a resolvePlugins call on a non-empty reference list returns one
\* entry per reference; the i-th entry carries the id and the options of the
\* i-th reference (no options for a bare id) and, unless the id is "@this",
\* the plugin loaded for that id.
C15_DeclaredOrder ==
  \A r \in DOMAIN distConfigs :
    LET references == distConfigs[r].plugins
    IN (resolvePc[r] = "returned" /\ references # <<>>) =>
         /\ Len(resolved[r]) = Len(references)
         /\ \A i \in DOMAIN references :
              /\ resolved[r][i].config.id = references[i].id
              /\ resolved[r][i].config.options =
                   (IF references[i].kind = "string" THEN Undefined ELSE references[i].options)
              /\ references[i].id # ThisId => resolved[r][i].plugin.module = references[i].id

\* C21: every operation dispatched behind runSetup has phase setup, behind
\* runBuild a build phase, behind runRelease a build phase or release; a
\* release operation behind runRelease is dispatched only when every
\* build-phase operation of its distribution has settled; the requested
\* phase set is the same whatever flags and phases the caller passed.
C21_EntryPointPhases ==
  LET build == {"preprocess", "transform", "postprocess"}
      allowed == CASE entry.name = "runSetup"   -> {"setup"}
                   [] entry.name = "runBuild"   -> build
                   [] entry.name = "runRelease" -> build \cup {"release"}
                   [] OTHER                     -> Range(PHASE_IDS)
  IN /\ entry.name \in {"runSetup", "runBuild", "runRelease"} =>
          phasesToInclude(options) = allowed
     /\ pc \in {"executing", "resolved", "folded"} =>
          \A id \in AllIds :
            Dispatched(id) =>
              /\ OperationOf(id).phase \in allowed
              /\ (entry.name = "runRelease" /\ OperationOf(id).phase = "release") =>
                   \A other \in AllIds :
                     (/\ OperationOf(other).distribution = OperationOf(id).distribution
                      /\ OperationOf(other).phase \in build) => Settled(other)

\* the operations of a graph, wave by wave
OperationsOf(g) == Flatten([k \in DOMAIN g.waves |-> g.waves[k].operations])

IdsOf(g) == {OperationsOf(g)[i].id : i \in DOMAIN OperationsOf(g)}

\* index (from 0) of the wave of g that holds the operation with this id
WaveIn(g, id) ==
  (CHOOSE k \in DOMAIN g.waves :
     \E i \in DOMAIN g.waves[k].operations : g.waves[k].operations[i].id = id) - 1

\* the operations of wave k (from 1) of g, as a set
WaveSet(g, k) == IF k \in DOMAIN g.waves THEN Range(g.waves[k].operations) ELSE {}

\* C22: filterGraphByPhases(g, P) keeps exactly the operations of g whose
\* phase is in P, each once; it has no empty wave, its waves are indexed
\* 0, 1, ... and keep the relative order they had in g (two kept operations
\* stay in one wave or in the same order of waves, and keep their order
\* inside a wave); totalOperations is the number of kept operations; the
\* keys of the edge map are the kept operations and each edge list is the
\* edge list of g restricted to the kept operations.
C22_FilterByPhases ==
  filtered.done =>
    LET f    == filtered.graph
        kept == {id \in AllIds : OperationOf(id).phase \in filtered.phases}
    IN /\ Range(OperationsOf(f)) = {OperationOf(id) : id \in kept}
       /\ Len(OperationsOf(f)) = Cardinality(kept)
       /\ \A n \in DOMAIN f.waves :
            f.waves[n].operations # <<>> /\ f.waves[n].index = n - 1
       /\ \A a, b \in kept :
            /\ (WaveOf(a) < WaveOf(b)) <=> (WaveIn(f, a) < WaveIn(f, b))
            /\ (WaveOf(a) = WaveOf(b)) =>
                 LET before == graph.waves[WaveOf(a) + 1].operations
                     after  == f.waves[WaveIn(f, a) + 1].operations
                 IN after = SelectSeq(before, LAMBDA op : op.id \in kept)
       /\ f.totalOperations = Cardinality(kept)
       /\ DOMAIN f.edges = kept
       /\ \A a \in kept :
            f.edges[a] = SelectSeq(graph.edges[a], LAMBDA b : b \in kept)
       /\ \A a \in kept : Range(f.edges[a]) \subseteq kept

\* a graph of three or more waves from which the filter dropped a wave that
\* lies before a kept one, and an edge that pointed to a dropped operation
C22_Witness ==
  /\ filtered.done
  /\ Len(graph.waves) >= 3
  /\ Len(filtered.graph.waves) = 2
  /\ \E a \in IdsOf(filtered.graph) :
       /\ WaveIn(filtered.graph, a) < WaveOf(a)
       /\ Len(filtered.graph.edges[a]) < Len(graph.edges[a])

\* C23: mergeGraphs of no graph returns a graph with 0 operations, 0 waves
\* and an empty edge map; mergeGraphs of one graph returns a graph with the
\* waves, the totalOperations and the edge map of that graph.
C23_MergeNoneAndOne ==
  merged.done =>
    /\ Len(parts.builds) = 0 =>
         /\ merged.error = "none"
         /\ merged.graph.totalOperations = 0
         /\ merged.graph.waves = <<>>
         /\ DOMAIN merged.graph.edges = {}
    /\ Len(parts.builds) = 1 =>
         /\ merged.error = "none"
         /\ merged.graph.waves = parts.builds[1].graph.waves
         /\ merged.graph.totalOperations = parts.builds[1].graph.totalOperations
         /\ merged.graph.edges = parts.builds[1].graph.edges

\* the merge of a single graph that has several waves and an edge
C23_Witness ==
  /\ merged.done
  /\ Len(parts.builds) = 1
  /\ Len(merged.graph.waves) >= 2
  /\ \E a \in DOMAIN merged.graph.edges : merged.graph.edges[a] # <<>>

\* the plugin list is the concatenation of the lists of its distributions
Grouped(list) ==
  list = Flatten([n \in DOMAIN distributionsOf(list) |->
                    pluginsOf(list, distributionsOf(list)[n])])

\* C24: when the graphs of the distributions were built one by one and the
\* plugin list is the concatenation of their lists, the builder returns a
\* graph for the whole list, and mergeGraphs of the separate graphs has the
\* same totalOperations, the same edge map, the same number of waves and in
\* every wave the same set of operations as that graph; wave k of the merge
\* is the union of the waves k of the separate graphs.
C24_MergeEqualsCombinedBuild ==
  (merged.done /\ Grouped(plugins)) =>
    /\ pc = "built"
    /\ merged.error = "none"
    /\ merged.graph.totalOperations = graph.totalOperations
    /\ merged.graph.edges = graph.edges
    /\ Len(merged.graph.waves) = Len(graph.waves)
    /\ \A k \in DOMAIN graph.waves :
         /\ WaveSet(merged.graph, k) = WaveSet(graph, k)
         /\ Len(merged.graph.waves[k].operations) = Len(graph.waves[k].operations)
         /\ WaveSet(merged.graph, k) =
              UNION {WaveSet(parts.builds[n].graph, k) : n \in DOMAIN parts.builds}

\* the merge of two graphs with different numbers of waves, each with an edge
C24_Witness ==
  /\ merged.done
  /\ Grouped(plugins)
  /\ Len(parts.builds) = 2
  /\ Len(parts.builds[1].graph.waves) >= 2
  /\ Len(parts.builds[2].graph.waves) > Len(parts.builds[1].graph.waves)
  /\ Len(merged.graph.waves[1].operations) >= 2

\* the largest number of waves among the separately built graphs
RECURSIVE MaxWaves(_)
MaxWaves(builds) ==
  IF builds = <<>> THEN 0
  ELSE LET rest == MaxWaves(Tail(builds))
           mine == Len(Head(builds).graph.waves)
       IN IF mine > rest THEN mine ELSE rest

\* C30: in a graph the builder returns, every dependency edge joins two
\* operations of one distribution; the builder also returns a graph for the
\* plugins of each distribution on their own, that graph holds exactly the
\* operations of the distribution with the same edge lists, every operation
\* has the same wave index in it as in the graph of the whole list, and the
\* number of waves of the whole graph is the largest number of waves of a
\* distribution built alone.
C30_NoCrossDistributionOrdering ==
  (pc = "built" /\ parts.done) =>
    /\ \A a \in AllIds : \A b \in Range(graph.edges[a]) :
         b \in AllIds /\ OperationOf(b).distribution = OperationOf(a).distribution
    /\ \A n \in DOMAIN parts.builds :
         LET alone == parts.builds[n].graph
             name  == distributionsOf(plugins)[n]
         IN /\ parts.builds[n].error = "none"
            /\ IdsOf(alone) = {id \in AllIds : OperationOf(id).distribution = name}
            /\ \A id \in IdsOf(alone) :
                 /\ WaveIn(alone, id) = WaveOf(id)
                 /\ alone.edges[id] = graph.edges[id]
    /\ Len(graph.waves) = MaxWaves(parts.builds)

\* a list in which the plugins of two distributions alternate, whose
\* distributions have different numbers of waves when built alone
C30_Witness ==
  /\ pc = "built"
  /\ parts.done
  /\ Len(plugins) = 3
  /\ plugins[1].distribution = plugins[3].distribution
  /\ plugins[1].distribution # plugins[2].distribution
  /\ Len(parts.builds[1].graph.waves) >= 2
  /\ Len(parts.builds[2].graph.waves) >= 2
  /\ Len(parts.builds[1].graph.waves) # Len(parts.builds[2].graph.waves)

\* C25: every operation of a graph the builder returns belongs to a
\* distribution that options.distributions lists.
C25_DistributionSelection ==
  pc = "built" =>
    \A i \in DOMAIN AllOperations :
      AllOperations[i].distribution \in Range(options.distributions)

\* the phases the options request: options.phases when given, else the build
\* phases, setup unless includeSetup is false, release unless includeRelease
\* is false
RequestedPhases ==
  IF options.hasPhases THEN options.phases
  ELSE {"preprocess", "transform", "postprocess"}
         \cup {ph \in {"setup"} : options.includeSetup # "false"}
         \cup {ph \in {"release"} : options.includeRelease # "false"}

\* C26: a graph the builder returns holds an operation for a distribution,
\* a plugin id and a phase exactly when the list has an entry of that
\* distribution and plugin id whose plugin has a handler for the phase and
\* the phase is requested; every operation carries a plugin of the list that
\* has the handler; with phases unset, a plugin with a setup handler has a
\* setup operation when includeSetup is true and none when it is false.
C26_PhaseSelection ==
  pc = "built" =>
    /\ \A i \in DOMAIN plugins : \A ph \in Range(PHASE_IDS) :
         (\E k \in DOMAIN AllOperations :
            /\ AllOperations[k].distribution = plugins[i].distribution
            /\ AllOperations[k].plugin.id = plugins[i].plugin.id
            /\ AllOperations[k].phase = ph)
         <=> (/\ ph \in RequestedPhases
              /\ \E j \in DOMAIN plugins :
                   /\ plugins[j].distribution = plugins[i].distribution
                   /\ plugins[j].plugin.id = plugins[i].plugin.id
                   /\ ph \in plugins[j].plugin.handlers)
    /\ \A k \in DOMAIN AllOperations :
         /\ AllOperations[k].phase \in AllOperations[k].plugin.handlers
         /\ \E i \in DOMAIN plugins :
              /\ plugins[i].plugin = AllOperations[k].plugin
              /\ plugins[i].distribution = AllOperations[k].distribution
    /\ (~options.hasPhases /\ options.includeSetup = "true") =>
         \A i \in DOMAIN plugins :
           "setup" \in plugins[i].plugin.handlers =>
             \E k \in DOMAIN AllOperations :
               /\ AllOperations[k].phase = "setup"
               /\ AllOperations[k].plugin.id = plugins[i].plugin.id
               /\ AllOperations[k].distribution = plugins[i].distribution
    /\ (~options.hasPhases /\ options.includeSetup = "false") =>
         \A k \in DOMAIN AllOperations : AllOperations[k].phase # "setup"

\* a graph built with includeSetup true and includeRelease false from a list
\* with a plugin that has a setup and a release handler: it holds the setup
\* operation and no release operation
C26_Witness ==
  /\ pc = "built"
  /\ ~options.hasPhases
  /\ options.includeSetup = "true"
  /\ \E i \in DOMAIN plugins : {"setup", "release"} \subseteq plugins[i].plugin.handlers
  /\ \E k \in DOMAIN AllOperations : AllOperations[k].phase = "setup"
  /\ \A k \in DOMAIN AllOperations : AllOperations[k].phase # "release"
  /\ Len(AllOperations) >= 3

\* the entries of the list that belong to the distribution and implement the
\* phase, in config order
Implementers(distribution, phase) ==
  SelectSeq(plugins, LAMBDA p : p.distribution = distribution /\ phase \in p.plugin.handlers)

\* no two entries of one distribution carry the same plugin id
DistinctPlugins ==
  \A i, j \in DOMAIN plugins :
    (plugins[i].distribution = plugins[j].distribution
       /\ plugins[i].plugin.id = plugins[j].plugin.id) => i = j

\* C29: in a graph built from a list that names every plugin once per
\* distribution, an operation a depends on another operation b of the same
\* distribution and phase exactly when the plugin of a declares the plugin
\* of b, or neither plugin has canParallelize = true and b's plugin is the
\* immediate predecessor of a's plugin among the plugins of the
\* distribution that implement the phase, in config order.
C29_NonParallelChain ==
  (pc = "built" /\ DistinctPlugins) =>
    \A i, j \in DOMAIN AllOperations :
      LET a   == AllOperations[i]
          b   == AllOperations[j]
          seq == Implementers(a.distribution, a.phase)
          ids == [k \in DOMAIN seq |-> seq[k].plugin.id]
      IN (i # j /\ a.distribution = b.distribution /\ a.phase = b.phase) =>
           (b.id \in Range(graph.edges[a.id])
              <=> \/ b.plugin.id \in Range(a.plugin.dependencies)
                  \/ /\ a.plugin.canParallelize # "true"
                     /\ b.plugin.canParallelize # "true"
                     /\ IndexOf(ids, b.plugin.id) + 1 = IndexOf(ids, a.plugin.id))

\* C27: a resolvePlugins call returns the empty list when the distribution
\* config sets no custom script path and every reference of the list is
\* "@this" (or the list is empty).
C27_NothingToResolve ==
  \A r \in DOMAIN distConfigs :
    (/\ resolvePc[r] = "returned"
     /\ ~distConfigs[r].hasCustomScripts
     /\ \A k \in DOMAIN distConfigs[r].plugins :
          normalizeReference(distConfigs[r].plugins[k]).id = ThisId)
      => resolved[r] = <<>>

\* id, name and version are non-empty strings, and every phase property the
\* object has is a function
WellFormedPlugin(obj) ==
  /\ \A field \in {obj.metadata.id, obj.metadata.name, obj.metadata.version} :
       field.isString /\ field.text # ""
  /\ \A phase \in DOMAIN obj.fields : obj.fields[phase] = "function"

\* C28: a load is fulfilled only for an imported object whose id, name and
\* version are non-empty strings and whose phase properties (preprocess,
\* transform, postprocess, setup, release) are all functions; every other
\* load is rejected with a PluginError whose pluginId is the id of the
\* reference, every loadPlugin call that waited for it fails, and a
\* resolvePlugins call with a failed loadPlugin call returns no list.
C28_ValidationOnLoad ==
  /\ \A n \in DOMAIN loads :
       loads[n].state # "pending" =>
         LET wellFormed == /\ loads[n].imported # "throws"
                           /\ WellFormedPlugin(ModuleExport(loads[n].imported, loads[n].id))
         IN IF wellFormed
              THEN loads[n].state = "fulfilled"
              ELSE /\ loads[n].state = "rejected"
                   /\ loads[n].pluginId = loads[n].id
  /\ \A r \in DOMAIN calls : \A k \in DOMAIN calls[r] :
       LET call == calls[r][k]
       IN /\ (call.pc = "done" /\ call.promise # 0) => loads[call.promise].state = "fulfilled"
          /\ call.pc = "failed" =>
               /\ loads[call.promise].state = "rejected"
               /\ loads[call.promise].pluginId = call.id
               /\ resolvePc[r] # "returned"
               /\ resolved[r] = <<>>

\* the GraphError of computeWaves
NoneAvailable == "No operations available but remaining set is not empty"

\* C31: buildExecutionGraph never throws the GraphError of computeWaves:
\* whenever detectCycles reports no cycle for the nodes of the input,
\* computeWaves finds a ready operation in every round and the builder
\* returns a graph; detectCycles reports a cycle exactly when the
\* dependencies have one.
C31_NoStuckRound ==
  pc # "start" =>
    /\ built.error # NoneAvailable
    /\ detectCycles(NodeIds(InputNodes), InputDependencies) <=> HasCycle(InputDependencies)
    /\ ~detectCycles(NodeIds(InputNodes), InputDependencies) =>
         /\ computeWaves(InputNodes, InputDependencies).error = "none"
         /\ pc = "built"

\* the builder returned a graph of four or more waves for plugins with
\* declared dependencies: the search found no cycle and computeWaves went
\* through four rounds
C31_Witness ==
  /\ pc = "built"
  /\ Len(graph.waves) >= 4
  /\ \E i \in DOMAIN plugins : plugins[i].plugin.dependencies # <<>>
  /\ \E a \in DOMAIN graph.edges : Len(graph.edges[a]) >= 3

\* the largest wave index among the operations of a non-empty set
MaxWaveOf(ids) == CHOOSE w \in {WaveOf(id) : id \in ids} : \A id \in ids : WaveOf(id) <= w

\* C32: in a returned graph an operation without dependencies lies in wave
\* 0 and every other operation lies in the wave after the latest wave of
\* its dependencies.
C32_EarliestWave ==
  pc = "built" =>
    \A a \in AllIds :
      WaveOf(a) = IF graph.edges[a] = <<>> THEN 0 ELSE 1 + MaxWaveOf(Range(graph.edges[a]))

\* a returned graph in which an operation has dependencies in two different
\* waves, and an operation without dependencies shares wave 0 with another
C32_Witness ==
  /\ pc = "built"
  /\ Len(graph.waves) >= 3
  /\ Len(graph.waves[1].operations) >= 2
  /\ \E a \in AllIds : \E b, c \in Range(graph.edges[a]) :
       WaveOf(b) < WaveOf(c) /\ WaveOf(a) = WaveOf(c) + 1

\* C40: for every operation the builder creates, parseOperationId of its id
\* returns its distribution, the id of its plugin and its phase, and two
\* entries of the plugin list and phases that differ in distribution, plugin
\* id or phase have different operation ids.
C40_IdRoundTrip ==
  pc # "start" =>
    /\ \A i \in DOMAIN InputNodes :
         LET operation == InputNodes[i]
             parsed    == parseOperationId(operation.id)
         IN /\ Str(parsed.distribution) = operation.distribution
            /\ Str(parsed.pluginId) = operation.plugin.id
            /\ parsed.phase = operation.phase
    /\ \A i, j \in DOMAIN plugins : \A ph, qh \in Range(PHASE_IDS) :
         (operationId(plugins[i].distribution, plugins[i].plugin.id, ph)
            = operationId(plugins[j].distribution, plugins[j].plugin.id, qh))
           => /\ plugins[i].distribution = plugins[j].distribution
              /\ plugins[i].plugin.id = plugins[j].plugin.id
              /\ ph = qh

\* C37: whatever the progress callback does, an operation whose handler
\* returned success = true is recorded with success = true and is not in
\* failed, no id occurs twice in failed, completed counts every settled
\* operation once, and executeGraph does not reject.
C37_CallbackCannotCorrupt ==
  /\ \A id \in DOMAIN settledAs :
       settledAs[id] = "ok" =>
         /\ id \in DOMAIN results
         /\ results[id].success
         /\ id \notin Range(failed)
  /\ \A id \in DOMAIN settledAs : Len(SelectSeq(failed, LAMBDA f : f = id)) <= 1
  /\ completed = Cardinality({id \in DOMAIN settledAs : settledAs[id] # "pending"})
  /\ pc # "rejected"

\* C33: the operations of a wave are started together: when one of them has
\* been started, each of them has, with its context requested and its
\* handler invoked while the others may still be pending; an operation is
\* recorded as soon as it has settled, whatever its wave-mates do; and the
\* continuation of every pending operation can run, in any order.
C33_WaveConcurrency ==
  pc \in {"executing", "resolved", "rejected"} =>
    /\ \A k \in DOMAIN graph.waves : \A a, b \in Range(WaveIds(k)) :
         promise[a] # "unmapped" =>
           /\ promise[b] # "unmapped"
           /\ contextCalls[b] = IF inflight[b] = "noHandler" THEN 0 ELSE 1
           /\ handlerCalls[b] = IF inflight[b] = "invoked" THEN 1 ELSE 0
    /\ \A a \in AllIds : settledAs[a] # "pending" => a \in DOMAIN results
    /\ \A a \in AllIds : promise[a] = "pending" => ENABLED Settle(a)

\* the handlers of both operations of a wave were invoked, the second has
\* settled and is recorded while the first is still running
C33_Witness ==
  /\ pc = "executing"
  /\ \E k \in DOMAIN graph.waves :
       /\ Len(WaveIds(k)) = 2
       /\ handlerCalls[WaveIds(k)[1]] = 1
       /\ handlerCalls[WaveIds(k)[2]] = 1
       /\ promise[WaveIds(k)[1]] = "pending"
       /\ promise[WaveIds(k)[2]] = "fulfilled"
       /\ WaveIds(k)[2] \in DOMAIN results

\* C34: once the graph is built, executeGraph eventually resolves with a
\* result recorded for every operation of the graph, given that every
\* invoked handler settles.
C34_Termination ==
  (pc = "built") ~> (pc \in {"resolved", "folded"} /\ DOMAIN returned.results = AllIds)

\* the recorded outcomes of a run that differs from the run that took place
\* at most in the outcomes of the operations of other distributions
OtherRuns(distName) ==
  LET others == {id \in AllIds : OperationOf(id).distribution # distName}
      values == {HandlerResult("ok"), HandlerResult("fail"), ErrorResult(HandlerThrown)}
  IN {[success |-> \A id \in AllIds : (choice @@ returned.results)[id].success,
       results |-> choice @@ returned.results,
       failed  |-> SelectSeq([k \in DOMAIN AllOperations |-> AllOperations[k].id],
                             LAMBDA id : ~(choice @@ returned.results)[id].success)] :
        choice \in [others -> values]}

\* C36: the PipelineResult that runPipelineGraph returns for a distribution
\* is the one it returns for every run that differs only in the outcomes of
\* operations of other distributions.
C36_DistributionIsolation ==
  pc = "folded" =>
    \A d \in Range(distNames) :
      \A other \in OtherRuns(d) : foldDistribution(other, d) = pipelineResults[d]

\* both distributions have an operation, the one of the first distribution
\* succeeded and the one of the second did not
C36_Witness ==
  /\ pc = "folded"
  /\ pipelineResults[DistD].phases # <<>>
  /\ pipelineResults[DistE].phases # <<>>
  /\ pipelineResults[DistD].success
  /\ ~pipelineResults[DistE].success

\* the waves of g hold no operation id twice, the edge map names only
\* operations of g, and every dependency lies in an earlier wave
Scheduled(g) ==
  /\ Len(OperationsOf(g)) = Cardinality(IdsOf(g))
  /\ g.totalOperations = Len(OperationsOf(g))
  /\ DOMAIN g.edges \subseteq IdsOf(g)
  /\ \A a \in DOMAIN g.edges : \A b \in Range(g.edges[a]) :
       b \in IdsOf(g) /\ WaveIn(g, b) < WaveIn(g, a)

\* C39: the result of filterGraphByPhases on a built graph, and the result
\* of mergeGraphs on built and filtered graphs that share operation ids,
\* has waves that partition its operations, an edge map that names only its
\* operations and every dependency in an earlier wave than its dependent;
\* mergeGraphs does not throw on these graphs.
C39_DerivedGraphsScheduled ==
  /\ filtered.done => Scheduled(filtered.graph)
  /\ merged.done =>
       /\ merged.error = "none"
       /\ Scheduled(merged.graph)
       /\ IdsOf(merged.graph) = UNION {IdsOf(parts.builds[n].graph) : n \in DOMAIN parts.builds}

\* a merge of two graphs that share an operation to which they give
\* different edge lists, with a result of three or more waves
C39_Witness ==
  /\ merged.done
  /\ Len(parts.builds) >= 2
  /\ Len(merged.graph.waves) >= 3
  /\ \E id \in IdsOf(parts.builds[1].graph) \cap IdsOf(parts.builds[2].graph) :
       /\ parts.builds[1].graph.edges[id] # parts.builds[2].graph.edges[id]
       /\ parts.builds[1].graph.edges[id] # <<>>
       /\ parts.builds[2].graph.edges[id] # <<>>

\* the loadPlugin call that started the n-th load has run its catch block
HandledFailure(n) ==
  \E c \in AllCalls :
    CallOf(c).promise = n /\ CallOf(c).via = "started" /\ CallOf(c).pc = "failed"

\* the state of the caches with respect to failed loads
FailedLoadsForgotten ==
  /\ \A c \in AllCalls :
       (CallOf(c).promise # 0 /\ loads[CallOf(c).promise].state = "rejected"
          /\ CallOf(c).pc \notin {"awaiting", "joined"})
         => CallOf(c).pc = "failed"
  /\ \A n \in DOMAIN loads :
       /\ loads[n].state = "rejected" =>
            /\ loads[n].pluginId = loads[n].id
            /\ \A key \in DOMAIN registry : registry[key].load # n
       /\ HandledFailure(n) =>
            /\ loads[n].state = "rejected"
            /\ loads[n].id \in DOMAIN loadPromises => loadPromises[loads[n].id] > n
       /\ ~HandledFailure(n) =>
            /\ loads[n].id \in DOMAIN loadPromises
            /\ loadPromises[loads[n].id] = n

\* a resolvePlugins call that starts: a loadPlugin call of it is handed the
\* promise of a load only if the catch block for that load has not run, and
\* otherwise starts a load unless the id is registered
NoReplay ==
  \A r \in DOMAIN calls :
    (calls[r] = <<>> /\ calls'[r] # <<>>) =>
      \A k \in DOMAIN calls'[r] :
        LET call == calls'[r][k]
        IN /\ call.via = "joined" => (call.promise \in DOMAIN loads /\ ~HandledFailure(call.promise))
           /\ (\E n \in DOMAIN loads : loads[n].id = call.id /\ HandledFailure(n)
                  /\ \A m \in DOMAIN loads : m > n => loads[m].id # call.id)
                => /\ call.via = "started"
                   /\ call.promise \notin DOMAIN loads
                   /\ loads'[call.promise] = [id |-> call.id, state |-> "pending",
                                              imported |-> "pending", pluginId |-> "none"]

\* C38: every loadPlugin call that was handed a load that failed fails with
\* the PluginError of that load; nothing of a failed load is registered; once
\* the call that started the load has run its catch block the cache holds
\* no entry for the id unless a newer load has been started, and until then
\* the entry of every load is in place, so that a catch block never removes
\* the entry of a newer load; a loadPlugin call made after the catch block
\* has run starts a new load.
C38_FailedLoadsNotCached == [](FailedLoadsForgotten) /\ [][NoReplay]_vars

\* a load failed for the call that started it and for the call that was
\* handed its promise, and a load of another id that had failed before was
\* started anew by the later call
C38_Witness ==
  \E c, d, e \in AllCalls :
    /\ CallOf(c).via = "started" /\ CallOf(c).pc = "failed"
    /\ CallOf(d).via = "joined" /\ CallOf(d).pc = "failed"
    /\ CallOf(d).promise = CallOf(c).promise
    /\ CallOf(e).via = "started"
    /\ \E n \in DOMAIN loads :
         n < CallOf(e).promise /\ loads[n].id = CallOf(e).id /\ HandledFailure(n)

\* the graph of the build phases of the resolved list, as runBuild requests it
BuildPhaseGraph ==
  buildExecutionGraph(plugins, Opt(<<DistD>>, TRUE, Range(BUILD_PHASE_IDS), "false", "false"))

\* C35: for a resolved list of one distribution whose plugins have distinct
\* ids, none with canParallelize true, on which runPipeline has invoked
\* every handler with success: the builder returns a graph of the build
\* phases, every wave of it holds one operation, and the operations wave by
\* wave are the handlers in the order in which runPipeline invoked them.
C35_GraphRefinesSequential ==
  (/\ runPc = "returned"
   /\ pipelineResult.success
   /\ DistinctPlugins
   /\ \A i \in DOMAIN plugins : plugins[i].plugin.canParallelize # "true")
    => LET waves == BuildPhaseGraph.graph.waves
       IN /\ BuildPhaseGraph.error = "none"
          /\ \A k \in DOMAIN waves : Len(waves[k].operations) = 1
          /\ [k \in DOMAIN waves |->
                <<waves[k].operations[1].phase, waves[k].operations[1].plugin.id>>]
               = [k \in DOMAIN invocations |->
                    <<invocations[k][1], plugins[invocations[k][2]].plugin.id>>]

====
